---- MODULE Spec2Model ----
(***************************************************************************)
(* Streaming execution and session concurrency core of the chat bridge:    *)
(* message router (commands.rs), turn dispatcher and render loop           *)
(* (message.rs), upload handler (file_ops.rs), attempt runner and retry    *)
(* orchestrator (codex.rs), history retention (session.rs).                *)
(*                                                                         *)
(* Tasks: one message handler per chat (the dispatcher processes the       *)
(* updates of one chat one after the other), and per turn one blocking     *)
(* runner thread and one render-loop task.  An action is a stretch of one  *)
(* task's code whose accesses to shared state (the locked SharedData, a    *)
(* CancelToken, a channel, a subprocess) commute with the steps the other  *)
(* tasks can take in between; where they do not, the code is cut into      *)
(* several actions.                                                        *)
(***************************************************************************)
EXTENDS Integers, Sequences, FiniteSets, TLC

\* ------------------------------------------------------------------ bounds
MaxTurns == 2
MaxUploads == 1
MaxEvents == 2
MaxMessages == 3
MaxHistOps == 6
MaxFairTurns == 1
MaxChunks == 2
MaxLines == 2
MaxWaiters == 2
MaxReservations == 3
MaxClock == 7000
ClockStep == 1000

\* ------------------------------------------------------- program constants
MAX_HISTORY_ITEMS == 100
MIN_GAP_MS == 3000
FRESH_ENTRY_AGE_MS == 10000

AllChats == {"c1", "c2"}
Turns == 1..MaxTurns
Pids == 1..(2 * MaxTurns)

\* pid of the subprocess of attempt a (1 or 2) of turn t
PidOf(t, a) == 2 * (t - 1) + a
TurnOfPid(p) == (p + 1) \div 2

\* -------------------------------------------------------------------- text
\* A text is a sequence of characters; a prompt, an upload notice and the
\* fixed messages are single opaque characters of that alphabet (the texts of
\* i18n.rs are written here in ASCII).
NL == "\n"
STOPPED == "[Stopped]"
MSG_NO_RESPONSE == "(no response)"
ERROR_PREFIX == "Error: "

IsBlankChar(ch) == ch \in {NL, " "}

\* str::contains
Contains(s, pat) ==
    \E i \in 1..(Len(s) - Len(pat) + 1) : SubSeq(s, i, i + Len(pat) - 1) = pat

\* str::trim().is_empty()
TrimIsEmpty(s) == \A i \in 1..Len(s) : IsBlankChar(s[i])

FirstNL(s) ==
    IF \E i \in 1..Len(s) : s[i] = NL
    THEN CHOOSE i \in 1..Len(s) : s[i] = NL /\ \A j \in 1..(i - 1) : s[j] # NL
    ELSE 0

\* str::lines(): split at "\n"; a final "\n" ends the last line and opens none
RECURSIVE Lines(_)
Lines(s) ==
    IF s = <<>> THEN <<>>
    ELSE LET i == FirstNL(s) IN
         IF i = 0 THEN <<s>>
         ELSE <<SubSeq(s, 1, i - 1)>> \o Lines(SubSeq(s, i + 1, Len(s)))

RECURSIVE NormalizeFrom(_, _, _, _)
NormalizeFrom(ls, k, result, prev_was_empty) ==
    IF k > Len(ls) THEN result
    ELSE IF ls[k] = <<>>
         THEN NormalizeFrom(ls, k + 1,
                            IF prev_was_empty THEN result ELSE result \o <<NL>>,
                            TRUE)
         ELSE NormalizeFrom(ls, k + 1,
                            (IF result # <<>> THEN result \o <<NL>> ELSE result) \o ls[k],
                            FALSE)

normalize_empty_lines(s) == NormalizeFrom(Lines(s), 1, <<>>, FALSE)

\* the text the cancelled path renders and records
StoppedResponseBare(full_response) == normalize_empty_lines(full_response)

StoppedResponse(full_response) ==
    IF TrimIsEmpty(full_response) THEN <<STOPPED>>
    ELSE normalize_empty_lines(full_response) \o <<NL, NL, STOPPED>>

\* the text the Done / Errored path renders and records
FinalResponse(full_response) ==
    normalize_empty_lines(IF full_response = <<>> THEN <<MSG_NO_RESPONSE>>
                          ELSE full_response)

\* the text of the n-th prompt and of the n-th upload notice
PromptText(n) == <<"q", ToString(n)>>
UploadRecord(n) == <<"[File uploaded]", ToString(n)>>

\* ----------------------------------------------------------------- history
HistoryItem(type, content) == [item_type |-> type, content |-> content]

enforce_history_cap_off(history) == history

enforce_history_cap(history) ==
    IF Len(history) > MAX_HISTORY_ITEMS
    THEN SubSeq(history, Len(history) - MAX_HISTORY_ITEMS + 1, Len(history))
    ELSE history


\* ------------------------------------------------------------------- state
VARIABLES
    chats,             \* the chats that send messages (fixed in a behaviour)
    sessions,          \* SharedData.sessions: chat -> ChatSession
    cancel_tokens,     \* SharedData.cancel_tokens: chat -> turn owning the token, 0 = none
    stop_message_ids,  \* SharedData.stop_message_ids: chat -> message id, 0 = none
    tokens,            \* the CancelToken of each turn: [cancelled, child_pid]
    h,                 \* the message handler of each chat: position and locals
    nPrompts,          \* prompts received so far (a turn carries its prompt's number)
    nUploads,          \* uploads received so far
    nMessages,         \* messages received so far
    nLines,            \* output lines read from subprocesses so far
    turn,              \* what handle_text_message moved into the spawned tasks
    rn,                \* the runner thread of each turn (execute_command_streaming)
    child,             \* the backend subprocess of each pid
    chan,              \* the mpsc channel of each turn: queued events, sender alive
    rl,                \* the render loop of each turn
    lock_stuck,        \* the shared lock is held by a handler that waits for it
    clearedSince,      \* history variable: /clear ran since the turn started
    hist_log,          \* history variable: entries appended since the last reset
    hist_ops,          \* history variable: operations applied in SpecHist
    fin,               \* the final rendering of one turn: position and locals
    placeholder_msg,   \* what the turn's placeholder message shows in the chat
    chat_out,          \* messages the final rendering has sent to the chat
    now,               \* the clock (tokio::time::Instant::now()), in ms
    api_timestamps,    \* SharedData.api_timestamps: chat -> last reserved instant
    waiter,            \* the tasks inside shared_rate_limit_wait and the call after it
    reserved_log,      \* history variable: the reservations, in lock order
    call_log,          \* history variable: the transport calls performed
    parse_in,          \* the JSON value of an output line
    parse_out,         \* what parse_codex_stream_line returned for it
    reader,            \* the read loop of one attempt: position and locals
    sent,              \* the messages the read loop passed to sender.send
    stderr_text,       \* what a subprocess wrote to stderr, as a string
    retryable,         \* what is_retryable_resume_error returned for it
    poll,              \* the polling loop of one turn, one statement per step
    pipes,             \* the three pipes of one subprocess and the threads on them
    auth               \* settings.owner_user_id, the public flags, the auth checks

vars == <<chats, sessions, cancel_tokens, stop_message_ids, tokens, h, nPrompts,
          nUploads, nMessages, nLines, turn, rn, child, chan, rl, lock_stuck, clearedSince,
          hist_log, hist_ops, fin, placeholder_msg, chat_out, now, api_timestamps,
          waiter, reserved_log, call_log, parse_in, parse_out, reader, sent,
          stderr_text, retryable, poll, pipes, auth>>

NoSession ==
    [exists |-> FALSE, session_id |-> 0, has_path |-> FALSE, history |-> <<>>,
     pending_uploads |-> <<>>, cleared |-> FALSE]

\* ChatSession as commands.rs creates it on auto-restore
NewSession ==
    [exists |-> TRUE, session_id |-> 0, has_path |-> TRUE, history |-> <<>>,
     pending_uploads |-> <<>>, cleared |-> FALSE]

\* session id and history of a session file left by an earlier run
OldSid == 2 * MaxTurns + 1
OldHistory == <<HistoryItem("User", <<"q", "0">>), HistoryItem("Assistant", <<"a">>)>>

HandlerIdle == [pc |-> "idle", kind |-> "none", out |-> "none", tok |-> 0]

NoTurn == [chat |-> "c1", user_text |-> <<>>, uploads |-> <<>>, session_id |-> 0]

RunnerNone ==
    [pc |-> "none", attempt |-> 0, attempt_session_id |-> 0, retried |-> FALSE,
     last_session_id |-> 0, done_sent |-> FALSE, emitted |-> 0, last |-> 0]

ChildNone == [state |-> "none", exit |-> "none"]

RenderNone ==
    [pc |-> "none", full_response |-> <<>>, done |-> FALSE, cancelled |-> FALSE,
     new_session_id |-> 0, stop_msg_id |-> 0]

\* no final rendering is being followed
FinNone ==
    [pc |-> "none", cancelled |-> FALSE, long |-> FALSE, html_chunks |-> 0,
     plain_chunks |-> 0, mode |-> "none", left |-> 0]

finalVars == <<fin, placeholder_msg, chat_out>>
rateVars == <<now, api_timestamps, waiter, reserved_log, call_log>>
lineVars == <<parse_in, parse_out, reader, sent>>
resumeVars == <<stderr_text, retryable>>
parseVars == <<lineVars, resumeVars>>
extVars == <<poll, pipes, auth>>
auxVars == <<finalVars, rateVars, parseVars, extVars>>

FinalIdle ==
    /\ fin = FinNone
    /\ placeholder_msg = "none"
    /\ chat_out = 0

\* a task that is not inside shared_rate_limit_wait
WaiterIdle == [pc |-> "idle", chat |-> "c1", sleep_until |-> 0]

RateIdle ==
    /\ now = 0
    /\ api_timestamps = [c \in AllChats |-> [present |-> FALSE, at |-> 0]]
    /\ waiter = [k \in 1..MaxWaiters |-> WaiterIdle]
    /\ reserved_log = <<>>
    /\ call_log = <<>>

\* a JSON value: absent, a string, a boolean, a number, an array of values
JVal(t, str, b, a) == [t |-> t, s |-> str, b |-> b, a |-> a]
JAbsent == JVal("absent", <<>>, FALSE, <<>>)
JStr(str) == JVal("str", str, FALSE, <<>>)
JBool(b) == JVal("bool", <<>>, b, <<>>)
JNum == JVal("num", <<>>, FALSE, <<>>)
JArr(a) == JVal("arr", <<>>, FALSE, a)

\* a {"type":"result"} object with its four optional members
ResultEvent(result, session_id, is_error, errors) ==
    [result |-> result, session_id |-> session_id, is_error |-> is_error,
     errors |-> errors]

\* no read loop is being followed
ReaderNone ==
    [pc |-> "none", last_session_id |-> <<>>, done_sent |-> FALSE,
     emitted_message_count |-> 0, lines |-> 0, rx |-> TRUE]

ParseIdle ==
    /\ parse_in = ResultEvent(JAbsent, JAbsent, JAbsent, JAbsent)
    /\ parse_out = <<>>
    /\ reader = ReaderNone
    /\ sent = <<>>
    /\ stderr_text = ""
    /\ retryable = <<>>

\* no polling loop, no pipe and no auth check is being followed; the fields of
\* poll after spin_idx are history fields: pushed, the edits and typing
\* signals pushed so far; received, the events received so far; term_at, the
\* place in received of the first Done or Error; queued_then and owed, the
\* events that were queued behind it and how many of them are still to be
\* received; shown, the accumulated text at the last pushed edit
PollNone ==
    [pc |-> "none", full_response |-> <<>>, last_edit_text |-> <<>>, done |-> FALSE,
     cancelled |-> FALSE, new_session_id |-> 0, spin_idx |-> 0, pushed |-> <<>>,
     received |-> <<>>, term_at |-> 0, queued_then |-> <<>>, owed |-> 0,
     shown |-> <<>>]

PipesNone ==
    [pc |-> "none", to_write |-> 0, stdin_open |-> FALSE, stdin |-> 0, stdout |-> 0,
     stderr |-> 0, err_pc |-> "none", prog |-> <<>>, at |-> 0, left |-> 0,
     exited |-> FALSE]

\* loaded: the owner id the settings file held at startup; checked: the users
\* whose auth check has run, in the order of the critical sections
AuthNone ==
    [owner_user_id |-> 0, as_public_for_group_chat |-> [c \in AllChats |-> FALSE],
     hm |-> [c \in AllChats |-> [pc |-> "idle", uid |-> 0]],
     loaded |-> 0, checked |-> <<>>, n |-> 0]

ExtIdle ==
    /\ poll = PollNone
    /\ pipes = PipesNone
    /\ auth = AuthNone

AuxIdle == FinalIdle /\ RateIdle /\ ParseIdle /\ ExtIdle

Init ==
    /\ chats = {"c1"}
    /\ sessions = [c \in AllChats |-> NoSession]
    /\ cancel_tokens = [c \in AllChats |-> 0]
    /\ stop_message_ids = [c \in AllChats |-> 0]
    /\ tokens = [t \in Turns |-> [cancelled |-> FALSE, child_pid |-> 0]]
    /\ h = [c \in AllChats |-> HandlerIdle]
    /\ nPrompts = 0
    /\ nUploads = 0
    /\ nMessages = 0
    /\ nLines = 0
    /\ turn = [t \in Turns |-> NoTurn]
    /\ rn = [t \in Turns |-> RunnerNone]
    /\ child = [p \in Pids |-> ChildNone]
    /\ chan = [t \in Turns |-> [q |-> <<>>, open |-> TRUE, rx |-> TRUE]]
    /\ rl = [t \in Turns |-> RenderNone]
    /\ lock_stuck = FALSE
    /\ clearedSince = [t \in Turns |-> FALSE]
    /\ hist_log = <<>>
    /\ hist_ops = 0
    /\ AuxIdle

sharedVars == <<sessions, cancel_tokens, stop_message_ids>>
taskVars == <<tokens, turn, rn, child, chan, rl>>
countVars == <<chats, nPrompts, nUploads, nMessages, nLines>>
ghostVars == <<clearedSince>>
histVars == <<hist_log, hist_ops>>
restVars == <<lock_stuck, hist_log, hist_ops, auxVars>>


\* ----------------------------------------------------------- message router
\* what load_existing_session finds for the auto-restored path
RestoreChoices == {"fresh", "existing"}

AutoRestore(session, restore) ==
    IF session.exists THEN session
    ELSE IF restore = "existing"
         THEN [NewSession EXCEPT !.session_id = OldSid, !.history = OldHistory]
         ELSE NewSession

\* a prompt, /stop, or another command (here /clear)
MessageKinds == {"text", "stop", "clear"}

\* handle_message for a text message, up to the busy check: the auto-restore
\* critical section
HmReceive(c, kind, restore) ==
    /\ ~lock_stuck
    /\ h[c].pc = "idle"
    /\ kind \in MessageKinds
    /\ kind = "text" => nPrompts < MaxTurns
    /\ nMessages < MaxMessages
    /\ nMessages' = nMessages + 1
    /\ sessions' = [sessions EXCEPT ![c] = AutoRestore(@, restore)]
    /\ h' = [h EXCEPT ![c] = [HandlerIdle EXCEPT !.pc = "check", !.kind = kind]]
    /\ UNCHANGED <<cancel_tokens, stop_message_ids>>
    /\ UNCHANGED <<chats, nPrompts, nUploads, nLines>>
    /\ UNCHANGED ghostVars
    /\ UNCHANGED taskVars
    /\ UNCHANGED restVars

\* the admission-control test: a token is registered for the chat
AiBusyNever(tokenmap, c) == FALSE

AiBusy(tokenmap, c) == tokenmap[c] # 0

\* "Block all messages except /stop while an AI request is in progress", and
\* the same test for the caption of an upload
HmBusy(c) ==
    /\ ~lock_stuck
    /\ \/ h[c].pc = "check" /\ h[c].kind # "stop"
       \/ h[c].pc = "caption"
    /\ AiBusy(cancel_tokens, c)
    /\ h' = [h EXCEPT ![c] = [@ EXCEPT !.pc = "reply", !.out = "busy"]]
    /\ UNCHANGED countVars
    /\ UNCHANGED ghostVars
    /\ UNCHANGED sharedVars
    /\ UNCHANGED taskVars
    /\ UNCHANGED restVars

\* shared_rate_limit_wait, then bot.send_message(MSG_AI_BUSY).await?, then return
HmReply(c) ==
    /\ ~lock_stuck
    /\ h[c].pc = "reply"
    /\ h' = [h EXCEPT ![c] = HandlerIdle]
    /\ UNCHANGED countVars
    /\ UNCHANGED ghostVars
    /\ UNCHANGED sharedVars
    /\ UNCHANGED taskVars
    /\ UNCHANGED restVars

\* ------------------------------------------------------------------- /stop
\* libc::kill(pid, SIGTERM) on the pid a CancelToken holds (none: nothing)
Sigterm(children, pid) ==
    IF pid # 0 /\ children[pid].state = "running"
    THEN [children EXCEPT ![pid] = [state |-> "exited", exit |-> "killed"]]
    ELSE children

\* handle_stop_command: look the token up; no token: "no active request";
\* a token already cancelled: the duplicate /stop is ignored
HsBegin(c) ==
    /\ ~lock_stuck
    /\ h[c].pc = "check"
    /\ h[c].kind = "stop"
    /\ h' = [h EXCEPT ![c] =
                IF cancel_tokens[c] = 0 \/ tokens[cancel_tokens[c]].cancelled
                THEN HandlerIdle
                ELSE [@ EXCEPT !.pc = "stop_send", !.tok = cancel_tokens[c]]]
    /\ UNCHANGED countVars
    /\ UNCHANGED ghostVars
    /\ UNCHANGED sharedVars
    /\ UNCHANGED taskVars
    /\ UNCHANGED restVars

\* the rate-limited send of "Stopping..." (a transport error leaves by `?`),
\* stop_message_ids.insert, token.cancelled.store(true), SIGTERM to the
\* registered pid
HsFinish(c, ok) ==
    /\ ~lock_stuck
    /\ h[c].pc = "stop_send"
    /\ IF ok
       THEN /\ stop_message_ids' = [stop_message_ids EXCEPT ![c] = 1]
            /\ tokens' = [tokens EXCEPT ![h[c].tok].cancelled = TRUE]
            /\ child' = Sigterm(child, tokens[h[c].tok].child_pid)
       ELSE UNCHANGED <<stop_message_ids, tokens, child>>
    /\ h' = [h EXCEPT ![c] = HandlerIdle]
    /\ UNCHANGED <<sessions, cancel_tokens>>
    /\ UNCHANGED <<turn, rn, chan, rl>>
    /\ UNCHANGED countVars
    /\ UNCHANGED ghostVars
    /\ UNCHANGED restVars

\* ------------------------------------------------------------------ /clear
ClearSession(session) ==
    IF session.exists
    THEN [session EXCEPT !.session_id = 0, !.history = <<>>,
                         !.pending_uploads = <<>>, !.cleared = TRUE]
    ELSE session

\* a turn whose tasks were spawned and whose render loop has not recorded yet
TurnOpen(t) == rl[t].pc \notin {"none", "end"}

\* handle_clear_command: cancel and signal the turn of a registered token,
\* then reset the session and drop the token and the stop notice
HandleClear(c) ==
    /\ ~lock_stuck
    /\ h[c].pc = "check"
    /\ h[c].kind = "clear"
    /\ ~AiBusy(cancel_tokens, c)
    /\ LET t == cancel_tokens[c] IN
         /\ tokens' = IF t # 0 THEN [tokens EXCEPT ![t].cancelled = TRUE] ELSE tokens
         /\ child' = IF t # 0 THEN Sigterm(child, tokens[t].child_pid) ELSE child
    /\ sessions' = [sessions EXCEPT ![c] = ClearSession(@)]
    /\ cancel_tokens' = [cancel_tokens EXCEPT ![c] = 0]
    /\ stop_message_ids' = [stop_message_ids EXCEPT ![c] = 0]
    /\ clearedSince' = [t \in Turns |->
                          clearedSince[t] \/ (TurnOpen(t) /\ turn[t].chat = c)]
    /\ h' = [h EXCEPT ![c] = HandlerIdle]
    /\ UNCHANGED <<turn, rn, chan, rl>>
    /\ UNCHANGED countVars
    /\ UNCHANGED restVars

\* --------------------------------------------------------------------- /cd
\* handle_cd_command with a valid directory for a chat without a session (its
\* last directory is gone, so nothing was auto-restored): the final block
\* holds the lock and calls shared_rate_limit_wait, which waits for the lock
HandleCd(c) ==
    /\ ~lock_stuck
    /\ c \notin chats
    /\ h[c].pc = "idle"
    /\ ~sessions[c].exists
    /\ nMessages < MaxMessages
    /\ nMessages' = nMessages + 1
    /\ lock_stuck' = TRUE
    /\ h' = [h EXCEPT ![c] = [HandlerIdle EXCEPT !.pc = "cd_stuck", !.kind = "cd"]]
    /\ UNCHANGED <<chats, nPrompts, nUploads, nLines>>
    /\ UNCHANGED <<hist_log, hist_ops, auxVars>>
    /\ UNCHANGED ghostVars
    /\ UNCHANGED sharedVars
    /\ UNCHANGED taskVars

\* ----------------------------------------------------------------- uploads
RecordUpload(session, n) ==
    [session EXCEPT
        !.history = enforce_history_cap(
                        Append(@, HistoryItem("User", UploadRecord(n)))),
        !.pending_uploads = Append(@, n)]

\* handle_message for a document or a photo: handle_file_upload (no session
\* path, or a failed download: nothing is recorded), then the caption, if
\* any, goes on as a prompt
HuReceive(c, caption, ok) ==
    /\ ~lock_stuck
    /\ h[c].pc = "idle"
    /\ nUploads < MaxUploads
    /\ caption => nPrompts < MaxTurns
    /\ nUploads' = nUploads + 1
    /\ nMessages < MaxMessages
    /\ nMessages' = nMessages + 1
    /\ IF sessions[c].exists /\ sessions[c].has_path /\ ok
       THEN sessions' = [sessions EXCEPT ![c] = RecordUpload(@, nUploads + 1)]
       ELSE sessions' = sessions
    /\ h' = [h EXCEPT ![c] =
                IF caption THEN [HandlerIdle EXCEPT !.pc = "caption", !.kind = "upload"]
                ELSE HandlerIdle]
    /\ UNCHANGED <<chats, nPrompts, nLines>>
    /\ UNCHANGED ghostVars
    /\ UNCHANGED <<cancel_tokens, stop_message_ids>>
    /\ UNCHANGED taskVars
    /\ UNCHANGED restVars

\* ------------------------------------------------------ handle_text_message
\* the drain without the reset of cleared
DrainSessionKeepCleared(session) ==
    IF session.exists THEN [session EXCEPT !.pending_uploads = <<>>] ELSE session

\* first critical section: session info, drain pending uploads, reset cleared
DrainSession(session) ==
    IF session.exists
    THEN [session EXCEPT !.cleared = FALSE, !.pending_uploads = <<>>]
    ELSE session

\* handle_text_message: the first critical section; without a session the
\* "no session" reply; the placeholder message (a transport error leaves by
\* `?`); the token registration; the spawn of the runner thread and of the
\* render loop
HandleText(c, ok) ==
    /\ ~lock_stuck
    /\ \/ h[c].pc = "check" /\ h[c].kind = "text"
       \/ h[c].pc = "caption"
    /\ ~AiBusy(cancel_tokens, c)
    /\ nPrompts < MaxTurns
    /\ sessions' = [sessions EXCEPT ![c] = DrainSession(@)]
    /\ h' = [h EXCEPT ![c] = HandlerIdle]
    /\ IF sessions[c].exists /\ sessions[c].has_path /\ ok
       THEN LET t == nPrompts + 1 IN
            /\ nPrompts' = t
            /\ cancel_tokens' = [cancel_tokens EXCEPT ![c] = t]
            /\ tokens' = [tokens EXCEPT ![t] = [cancelled |-> FALSE, child_pid |-> 0]]
            /\ turn' = [turn EXCEPT ![t] =
                           [chat |-> c, user_text |-> PromptText(t),
                            uploads |-> sessions[c].pending_uploads,
                            session_id |-> sessions[c].session_id]]
            /\ rn' = [rn EXCEPT ![t] = [RunnerNone EXCEPT
                           !.pc = "start", !.attempt = 1,
                           !.attempt_session_id = sessions[c].session_id]]
            /\ rl' = [rl EXCEPT ![t] = [RenderNone EXCEPT !.pc = "loop"]]
       ELSE UNCHANGED <<nPrompts, cancel_tokens, tokens, turn, rn, rl>>
    /\ UNCHANGED <<chats, nUploads, nMessages, nLines>>
    /\ UNCHANGED <<stop_message_ids, child, chan>>
    /\ UNCHANGED ghostVars
    /\ UNCHANGED restVars

\* ------------------------------------------------- backend subprocess, events
Event(type, sid, text) == [type |-> type, sid |-> sid, text |-> text]

\* the place of an event in the output of one subprocess: the session
\* announcement, then text, then the completion
Rank(type) == IF type = "Init" THEN 1 ELSE IF type = "Text" THEN 2 ELSE 3

\* what the next output line of the subprocess with pid p parses to, after a
\* line of rank last
ChildEvents(p, last) ==
    { ev \in { Event("Init", p, <<>>), Event("Text", 0, <<"a", NL, NL, NL, "b">>),
               Event("Done", 0, <<>>) } : Rank(ev.type) > last }

\* how a subprocess ends by itself: success, a stale-resume failure, another failure
ExitKinds == {"ok", "stale", "fail"}

\* what the subprocess wrote to stderr, as a string
StderrText(exit) ==
    IF exit = "stale" THEN "thread not found"
    ELSE IF exit = "fail" THEN "network timeout while contacting API"
    ELSE ""

\* the same as one character of a text
StderrOf(exit) == IF StderrText(exit) = "" THEN <<>> ELSE <<StderrText(exit)>>

\* str::to_lowercase, on strings of ASCII characters
LowerChar(ch) ==
    LET upper == "ABCDEFGHIJKLMNOPQRSTUVWXYZ"
        lower == "abcdefghijklmnopqrstuvwxyz"
    IN  IF \E i \in 1..26 : SubSeq(upper, i, i) = ch
        THEN LET i == CHOOSE i \in 1..26 : SubSeq(upper, i, i) = ch
             IN  SubSeq(lower, i, i)
        ELSE ch

to_lowercase(str) ==
    LET low[i \in 0..Len(str)] ==
            IF i = 0 THEN "" ELSE low[i - 1] \o LowerChar(SubSeq(str, i, i))
    IN  low[Len(str)]

known_patterns ==
    << "failed to resume", "could not resume", "cannot resume", "can't resume",
       "unable to resume", "invalid value for '--resume'",
       "invalid value for \"--resume\"", "thread not found", "session not found",
       "conversation not found", "unknown thread", "unknown session",
       "no such thread", "no such session", "expired thread", "expired session" >>

is_retryable_resume_error_case_sensitive(stderr_output) ==
    LET lower == stderr_output
    IN  \/ \E k \in 1..Len(known_patterns) : Contains(lower, known_patterns[k])
        \/ /\ Contains(lower, "--resume") \/ Contains(lower, "resume ")
           /\ \/ Contains(lower, "not found")
              \/ Contains(lower, "does not exist")
              \/ Contains(lower, "unknown")
              \/ Contains(lower, "no such")
              \/ Contains(lower, "expired")
              \/ Contains(lower, "invalid")

is_retryable_resume_error(stderr_output) ==
    LET lower == to_lowercase(stderr_output)
        has_resume_context == Contains(lower, "--resume") \/ Contains(lower, "resume ")
        has_missing_or_invalid_hint ==
            \/ Contains(lower, "not found")
            \/ Contains(lower, "does not exist")
            \/ Contains(lower, "unknown")
            \/ Contains(lower, "no such")
            \/ Contains(lower, "expired")
            \/ Contains(lower, "invalid")
    IN  IF \E k \in 1..Len(known_patterns) : Contains(lower, known_patterns[k])
        THEN TRUE
        ELSE has_resume_context /\ has_missing_or_invalid_hint

\* the subprocess ends by itself
ChildExit(p, ex) ==
    /\ child[p].state = "running"
    /\ ex \in ExitKinds
    /\ child' = [child EXCEPT ![p] = [state |-> "exited", exit |-> ex]]
    /\ UNCHANGED <<tokens, turn, rn, chan, rl, h>>
    /\ UNCHANGED countVars
    /\ UNCHANGED ghostVars
    /\ UNCHANGED sharedVars
    /\ UNCHANGED restVars

\* ------------------------------------------------------------ attempt runner
\* sender.send(msg): an error once the render loop has dropped the receiver
Send(channel, ev) ==
    IF channel.rx THEN [channel EXCEPT !.q = Append(@, ev)] ELSE channel

\* the thread's closure ends: its senders are dropped
DropSender(channel) == [channel EXCEPT !.open = FALSE]

\* the thread has returned; its locals are gone
RunnerDone == [RunnerNone EXCEPT !.pc = "done"]

\* Command::spawn (a failure is returned as Err, which the closure turns into
\* an Error event), the pid stored in the token, the prompt written to stdin
RnSpawn(t, ok) ==
    /\ rn[t].pc = "start"
    /\ LET p == PidOf(t, rn[t].attempt) IN
         IF ok
         THEN /\ child' = [child EXCEPT ![p] = [state |-> "running", exit |-> "none"]]
              /\ tokens' = [tokens EXCEPT ![t].child_pid = p]
              /\ rn' = [rn EXCEPT ![t].pc = "read"]
              /\ chan' = chan
         ELSE /\ child' = child
              /\ tokens' = tokens
              /\ rn' = [rn EXCEPT ![t] = RunnerDone]
              /\ chan' = [chan EXCEPT ![t] =
                            DropSender(Send(@, Event("Error", 0, <<"Failed to start">>)))]
    /\ UNCHANGED <<turn, rl, h>>
    /\ UNCHANGED countVars
    /\ UNCHANGED ghostVars
    /\ UNCHANGED sharedVars
    /\ UNCHANGED restVars

\* child.kill(); child.wait()
Reap(children, p) == [children EXCEPT ![p] = [state |-> "reaped", exit |-> "none"]]

\* what the orchestrator does with the channel on the Cancelled outcome:
\* "let Completed(outcome) = attempt else { return Ok(()) }"
CancelledOutcomeSynth(channel, r) ==
    DropSender(Send(channel, Event("Done", r.last_session_id, <<>>)))

CancelledOutcome(channel, r) == DropSender(channel)

\* the cancel test of the read loop finds the flag set: kill, wait, Cancelled
RnCancelled(t) ==
    /\ rn[t].pc = "read"
    /\ tokens[t].cancelled
    /\ child' = Reap(child, PidOf(t, rn[t].attempt))
    /\ rn' = [rn EXCEPT ![t] = RunnerDone]
    /\ chan' = [chan EXCEPT ![t] = CancelledOutcome(@, rn[t])]
    /\ UNCHANGED <<tokens, turn, rl, h>>
    /\ UNCHANGED countVars
    /\ UNCHANGED ghostVars
    /\ UNCHANGED sharedVars
    /\ UNCHANGED restVars

\* a Done without a session id takes the last one an Init announced
FillDoneNone(ev, last_session_id) == ev

FillDone(ev, last_session_id) ==
    IF ev.type = "Done" /\ ev.sid = 0 THEN [ev EXCEPT !.sid = last_session_id] ELSE ev

\* one iteration of the read loop: the flag is clear, read_line returns a
\* line, it parses to ev, ev is forwarded
RnReadLine(t, ev) ==
    /\ rn[t].pc = "read"
    /\ ~tokens[t].cancelled
    /\ child[PidOf(t, rn[t].attempt)].state = "running"
    /\ nLines < MaxEvents
    /\ ev \in ChildEvents(PidOf(t, rn[t].attempt), rn[t].last)
    /\ rn' = [rn EXCEPT
                ![t].last = Rank(ev.type),
                ![t].last_session_id = IF ev.type = "Init" THEN ev.sid ELSE @,
                ![t].done_sent = @ \/ ev.type = "Done",
                ![t].emitted = IF chan[t].rx THEN @ + 1 ELSE @]
    /\ chan' = [chan EXCEPT ![t] = Send(@, FillDone(ev, rn[t].last_session_id))]
    /\ nLines' = nLines + 1
    /\ UNCHANGED <<tokens, turn, child, rl, h>>
    /\ UNCHANGED <<chats, nPrompts, nUploads, nMessages>>
    /\ UNCHANGED ghostVars
    /\ UNCHANGED sharedVars
    /\ UNCHANGED restVars

\* the retry test of execute_command_streaming
ShouldRetryAnySession(r, exit) ==
    /\ exit # "ok"
    /\ ~r.retried
    /\ r.emitted = 0
    /\ is_retryable_resume_error(StderrText(exit))

ShouldRetryAfterEvents(r, exit) ==
    /\ exit # "ok"
    /\ r.attempt_session_id # 0
    /\ ~r.retried
    /\ is_retryable_resume_error(StderrText(exit))

ShouldRetry(r, exit) ==
    /\ exit # "ok"
    /\ r.attempt_session_id # 0
    /\ ~r.retried
    /\ r.emitted = 0
    /\ is_retryable_resume_error(StderrText(exit))

ErrorText(exit) ==
    IF ~TrimIsEmpty(StderrOf(exit)) THEN StderrOf(exit) ELSE <<"exited with code">>

\* read_line returns 0 (the subprocess closed its output), child.wait(), and
\* the orchestrator's decision: retry without resume, or forward an Error for
\* a failed exit
RnEOF(t) ==
    /\ rn[t].pc = "read"
    /\ ~tokens[t].cancelled
    /\ child[PidOf(t, rn[t].attempt)].state = "exited"
    /\ LET p == PidOf(t, rn[t].attempt)
           ex == child[p].exit
       IN  /\ child' = Reap(child, p)
           /\ IF ShouldRetry(rn[t], ex)
              THEN /\ rn' = [rn EXCEPT ![t] = [@ EXCEPT
                                !.pc = "start", !.attempt = @ + 1,
                                !.attempt_session_id = 0, !.retried = TRUE,
                                !.last_session_id = 0, !.done_sent = FALSE,
                                !.emitted = 0, !.last = 0]]
                   /\ chan' = chan
              ELSE /\ rn' = [rn EXCEPT ![t].pc = "synth_done"]
                   /\ chan' = IF ex # "ok"
                              THEN [chan EXCEPT ![t] = Send(@, Event("Error", 0, ErrorText(ex)))]
                              ELSE chan
    /\ UNCHANGED <<tokens, turn, rl, h>>
    /\ UNCHANGED countVars
    /\ UNCHANGED ghostVars
    /\ UNCHANGED sharedVars
    /\ UNCHANGED restVars

\* "if !outcome.done_sent": synthesize the Done; return; the senders drop
RnSynthDone(t) ==
    /\ rn[t].pc = "synth_done"
    /\ rn' = [rn EXCEPT ![t] = RunnerDone]
    /\ chan' = [chan EXCEPT ![t] =
                  DropSender(IF rn[t].done_sent THEN @
                             ELSE Send(@, Event("Done", rn[t].last_session_id, <<>>)))]
    /\ UNCHANGED <<tokens, turn, child, rl, h>>
    /\ UNCHANGED countVars
    /\ UNCHANGED ghostVars
    /\ UNCHANGED sharedVars
    /\ UNCHANGED restVars

\* --------------------------------------------------------------- render loop
\* one received event applied to the loop's locals
ApplyEvent(r, ev) ==
    IF ev.type = "Init" THEN [r EXCEPT !.new_session_id = ev.sid]
    ELSE IF ev.type = "Text" THEN [r EXCEPT !.full_response = @ \o ev.text]
    ELSE IF ev.type = "Done"
         THEN [r EXCEPT
                 !.full_response = IF ev.text # <<>> /\ @ = <<>> THEN ev.text ELSE @,
                 !.new_session_id = IF ev.sid # 0 THEN ev.sid ELSE @,
                 !.done = TRUE]
    ELSE [r EXCEPT !.full_response = <<ERROR_PREFIX>> \o ev.text, !.done = TRUE]

RECURSIVE ApplyAll(_, _, _)
ApplyAll(r, q, k) == IF k > Len(q) THEN r ELSE ApplyAll(ApplyEvent(r, q[k]), q, k + 1)

\* one iteration of the polling loop: the cancel tests around the 3 s sleep;
\* "Drain all available messages" (try_recv until Empty or Disconnected);
\* the incremental edit or the typing signal when the turn is not done
RlIter(t) ==
    /\ ~lock_stuck
    /\ rl[t].pc = "loop"
    /\ IF tokens[t].cancelled
       THEN /\ rl' = [rl EXCEPT ![t] = [@ EXCEPT !.pc = "fin_lock", !.cancelled = TRUE]]
            /\ chan' = chan
       ELSE /\ LET r == ApplyAll(rl[t], chan[t].q, 1)
                   d == r.done \/ ~chan[t].open
               IN  rl' = [rl EXCEPT ![t] =
                            [r EXCEPT !.done = d, !.pc = IF d THEN "fin_lock" ELSE "loop"]]
            /\ chan' = [chan EXCEPT ![t].q = <<>>]
    /\ UNCHANGED <<tokens, turn, rn, child, h>>
    /\ UNCHANGED countVars
    /\ UNCHANGED ghostVars
    /\ UNCHANGED sharedVars
    /\ UNCHANGED restVars

\* a removal that empties the token map
RemoveTokenEveryChat(tokenmap, c) == [x \in DOMAIN tokenmap |-> 0]

\* what the loop removes from the token map when it ends
RemoveToken(tokenmap, c) == [tokenmap EXCEPT ![c] = 0]

\* "Remove cancel token and take stop message ID (processing is done)"
RlFinLock(t) ==
    /\ ~lock_stuck
    /\ rl[t].pc = "fin_lock"
    /\ LET c == turn[t].chat IN
         /\ cancel_tokens' = RemoveToken(cancel_tokens, c)
         /\ stop_message_ids' = [stop_message_ids EXCEPT ![c] = 0]
         /\ rl' = [rl EXCEPT ![t].pc = "record",
                             ![t].stop_msg_id = stop_message_ids[c]]
    /\ UNCHANGED <<tokens, turn, rn, child, chan, h, sessions>>
    /\ UNCHANGED countVars
    /\ UNCHANGED ghostVars
    /\ UNCHANGED restVars

\* the text either terminal path renders into the placeholder and records
Rendering(r) ==
    IF r.cancelled THEN StoppedResponse(r.full_response)
    ELSE FinalResponse(r.full_response)

\* the two pushes and the cap of the final critical section
PushTurnAssistantOnly(history, user_text, response) ==
    enforce_history_cap(Append(history, HistoryItem("Assistant", response)))

PushTurn(history, user_text, response) ==
    enforce_history_cap(
        Append(Append(history, HistoryItem("User", user_text)),
               HistoryItem("Assistant", response)))

\* "Skip if session was cleared while we were running (race with /clear)"
RecordTurn(session, new_session_id, user_text, response) ==
    IF ~session.exists \/ session.cleared THEN session
    ELSE [session EXCEPT
            !.session_id = IF new_session_id # 0 THEN new_session_id ELSE @,
            !.history = PushTurn(@, user_text, response)]

\* after the token removal: the cancelled path signals the registered pid
\* again; both paths render the final text into the placeholder, delete the
\* "Stopping..." message and run the final critical section; the task ends
\* and drops the receiver
RlRecord(t) ==
    /\ ~lock_stuck
    /\ rl[t].pc = "record"
    /\ child' = IF rl[t].cancelled THEN Sigterm(child, tokens[t].child_pid) ELSE child
    /\ sessions' = [sessions EXCEPT ![turn[t].chat] =
                      RecordTurn(@, rl[t].new_session_id, turn[t].user_text,
                                 Rendering(rl[t]))]
    /\ rl' = [rl EXCEPT ![t] = [RenderNone EXCEPT !.pc = "end"]]
    /\ chan' = [chan EXCEPT ![t] = [@ EXCEPT !.q = <<>>, !.rx = FALSE]]
    /\ clearedSince' = [clearedSince EXCEPT ![t] = FALSE]
    /\ UNCHANGED <<tokens, turn, rn, h>>
    /\ UNCHANGED <<cancel_tokens, stop_message_ids>>
    /\ UNCHANGED countVars
    /\ UNCHANGED restVars

\* ------------------------------------------------------------ specification
HandlerStep(c) ==
    \/ \E kind \in MessageKinds, restore \in RestoreChoices :
          HmReceive(c, kind, restore)
    \/ HmBusy(c)
    \/ HmReply(c)
    \/ HsBegin(c)
    \/ \E ok \in BOOLEAN : HsFinish(c, ok)
    \/ HandleClear(c)
    \/ \E caption \in BOOLEAN, ok \in BOOLEAN : HuReceive(c, caption, ok)
    \/ \E ok \in BOOLEAN : HandleText(c, ok)

RunnerStep(t) ==
    \/ \E ok \in BOOLEAN : RnSpawn(t, ok)
    \/ RnCancelled(t)
    \/ \E ev \in ChildEvents(PidOf(t, rn[t].attempt), rn[t].last) : RnReadLine(t, ev)
    \/ RnEOF(t)
    \/ RnSynthDone(t)

RenderStep(t) ==
    \/ RlIter(t)
    \/ RlFinLock(t)
    \/ RlRecord(t)

Next ==
    \/ \E c \in chats : HandlerStep(c)
    \/ \E c \in AllChats : HandleCd(c)
    \/ \E t \in Turns : RunnerStep(t)
    \/ \E t \in Turns : RenderStep(t)
    \/ \E p \in Pids, ex \in ExitKinds : ChildExit(p, ex)

Spec == Init /\ [][Next]_vars

\* ------------------------------------------- liveness: the tasks keep running
\* Runs of at most MaxFairTurns turns in which each spawned render loop, a
\* tokio task whose sleeps end and whose lock requests are served in turn,
\* takes its next step whenever that step stays possible.
FairNext == Next /\ nPrompts' <= MaxFairTurns

FairSpec ==
    /\ Init
    /\ [][FairNext]_vars
    /\ \A t \in Turns : WF_vars(RenderStep(t))

\* ------------------------------------------------- history retention alone
\* The operations that append to a chat's history, applied to a session whose
\* history starts near the cap; hist_log keeps every entry since the last
\* reset.
HistStartLens == {0, 97, 98, 99, 100}

OldEntries(n) == [i \in 1..n |-> HistoryItem("User", <<"old", ToString(i)>>)]

InitHist ==
    /\ \E n \in HistStartLens :
         /\ sessions = [c \in AllChats |->
                          IF c = "c1" THEN [NewSession EXCEPT !.history = OldEntries(n)]
                          ELSE NoSession]
         /\ hist_log = OldEntries(n)
    /\ hist_ops = 0
    /\ chats = {"c1"}
    /\ cancel_tokens = [c \in AllChats |-> 0]
    /\ stop_message_ids = [c \in AllChats |-> 0]
    /\ tokens = [t \in Turns |-> [cancelled |-> FALSE, child_pid |-> 0]]
    /\ h = [c \in AllChats |-> HandlerIdle]
    /\ nPrompts = 0
    /\ nUploads = 0
    /\ nMessages = 0
    /\ nLines = 0
    /\ turn = [t \in Turns |-> NoTurn]
    /\ rn = [t \in Turns |-> RunnerNone]
    /\ child = [p \in Pids |-> ChildNone]
    /\ chan = [t \in Turns |-> [q |-> <<>>, open |-> TRUE, rx |-> TRUE]]
    /\ rl = [t \in Turns |-> RenderNone]
    /\ lock_stuck = FALSE
    /\ clearedSince = [t \in Turns |-> FALSE]
    /\ AuxIdle

\* a turn from its first critical section to its final one, on the Done path
\* or on the cancelled path
HistTurn(c, was_cancelled) ==
    /\ hist_ops < MaxHistOps
    /\ LET r == [RenderNone EXCEPT !.cancelled = was_cancelled,
                                   !.full_response = <<"a", NL>>]
           user_text == <<"q", ToString(hist_ops)>>
       IN  /\ sessions' = [sessions EXCEPT ![c] =
                             RecordTurn(DrainSession(@), 0, user_text, Rendering(r))]
           /\ hist_log' = hist_log \o << HistoryItem("User", user_text),
                                         HistoryItem("Assistant", Rendering(r)) >>
    /\ hist_ops' = hist_ops + 1
    /\ UNCHANGED <<cancel_tokens, stop_message_ids, lock_stuck>>
    /\ UNCHANGED <<h, countVars, taskVars, ghostVars, auxVars>>

\* a file upload
HistUpload(c) ==
    /\ hist_ops < MaxHistOps
    /\ sessions' = [sessions EXCEPT ![c] = RecordUpload(@, hist_ops)]
    /\ hist_log' = Append(hist_log, HistoryItem("User", UploadRecord(hist_ops)))
    /\ hist_ops' = hist_ops + 1
    /\ UNCHANGED <<cancel_tokens, stop_message_ids, lock_stuck>>
    /\ UNCHANGED <<h, countVars, taskVars, ghostVars, auxVars>>

\* /clear
HistClear(c) ==
    /\ hist_ops < MaxHistOps
    /\ sessions' = [sessions EXCEPT ![c] = ClearSession(@)]
    /\ hist_log' = <<>>
    /\ hist_ops' = hist_ops + 1
    /\ UNCHANGED <<cancel_tokens, stop_message_ids, lock_stuck>>
    /\ UNCHANGED <<h, countVars, taskVars, ghostVars, auxVars>>

NextHist ==
    \/ \E was_cancelled \in BOOLEAN : HistTurn("c1", was_cancelled)
    \/ HistUpload("c1")
    \/ HistClear("c1")

SpecHist == InitHist /\ [][NextHist]_vars

\* ------------------------------------------- the final rendering of a turn
\* The render task of turn 1 after it has removed its token, one transport
\* call per step.  long: the HTML of the final text is longer than
\* TELEGRAM_MSG_LIMIT; html_chunks, plain_chunks: the messages
\* send_long_message splits the HTML and the plain text into.
FinalTexts == {<<>>, <<"a">>}

InitFinal ==
    /\ \E was_cancelled \in BOOLEAN, text \in FinalTexts, stop_id \in {0, 1},
          long \in BOOLEAN, np \in 1..MaxChunks, nh \in 2..MaxChunks :
         /\ long \/ (np = 1 /\ nh = 2)
         /\ rl = [t \in Turns |->
                    IF t = 1
                    THEN [RenderNone EXCEPT !.pc = "record", !.full_response = text,
                                            !.cancelled = was_cancelled,
                                            !.done = ~was_cancelled,
                                            !.stop_msg_id = stop_id]
                    ELSE RenderNone]
         /\ tokens = [t \in Turns |->
                        [cancelled |-> (t = 1 /\ was_cancelled), child_pid |-> 0]]
         /\ fin = IF long
                  THEN [FinNone EXCEPT !.pc = "send", !.cancelled = was_cancelled,
                                       !.long = TRUE, !.html_chunks = nh,
                                       !.plain_chunks = np, !.mode = "html", !.left = nh]
                  ELSE [FinNone EXCEPT !.pc = "edit_html", !.cancelled = was_cancelled]
    /\ placeholder_msg = "provisional"
    /\ chat_out = 0
    /\ chats = {"c1"}
    /\ sessions = [c \in AllChats |-> IF c = "c1" THEN NewSession ELSE NoSession]
    /\ cancel_tokens = [c \in AllChats |-> 0]
    /\ stop_message_ids = [c \in AllChats |-> 0]
    /\ h = [c \in AllChats |-> HandlerIdle]
    /\ nPrompts = 1
    /\ nUploads = 0
    /\ nMessages = 1
    /\ nLines = 0
    /\ turn = [t \in Turns |->
                 IF t = 1 THEN [NoTurn EXCEPT !.user_text = PromptText(1)] ELSE NoTurn]
    /\ rn = [t \in Turns |-> IF t = 1 THEN RunnerDone ELSE RunnerNone]
    /\ child = [p \in Pids |-> ChildNone]
    /\ chan = [t \in Turns |-> [q |-> <<>>, open |-> t # 1, rx |-> TRUE]]
    /\ lock_stuck = FALSE
    /\ clearedSince = [t \in Turns |-> FALSE]
    /\ hist_log = <<>>
    /\ hist_ops = 0
    /\ RateIdle
    /\ ExtIdle
    /\ ParseIdle

coreVars ==
    <<chats, sessions, cancel_tokens, stop_message_ids, tokens, h, nPrompts, nUploads,
      nMessages, nLines, turn, rn, child, chan, rl, lock_stuck, clearedSince,
      hist_log, hist_ops>>

finCoreVars == <<coreVars, rateVars, parseVars, extVars>>

\* edit_message_text(placeholder, html) with ParseMode::Html
FinEditHtml(ok) ==
    /\ fin.pc = "edit_html"
    /\ placeholder_msg' = IF ok THEN "final" ELSE placeholder_msg
    /\ fin' = [fin EXCEPT !.pc = IF ok THEN "finish" ELSE "edit_plain"]
    /\ UNCHANGED chat_out
    /\ UNCHANGED finCoreVars

\* the fallback: edit_message_text(placeholder, plain text), its result dropped
FinEditPlain(ok) ==
    /\ fin.pc = "edit_plain"
    /\ placeholder_msg' = IF ok THEN "final" ELSE placeholder_msg
    /\ fin' = [fin EXCEPT !.pc = "finish"]
    /\ UNCHANGED chat_out
    /\ UNCHANGED finCoreVars

\* send_long_message whose caller deletes the placeholder whatever it returned
FinSendChunkThenDelete(ok) ==
    /\ fin.pc = "send"
    /\ chat_out' = IF ok THEN chat_out + 1 ELSE chat_out
    /\ fin' = IF ok /\ fin.left > 1 THEN [fin EXCEPT !.left = @ - 1]
              ELSE [fin EXCEPT !.pc = "delete", !.left = 0]
    /\ UNCHANGED placeholder_msg
    /\ UNCHANGED finCoreVars

\* send_long_message: one bot.send_message per chunk, left by `?` on the first
\* failure; the caller then sends the plain text the same way, and after a
\* second failure edits the placeholder
FinSendChunk(ok) ==
    /\ fin.pc = "send"
    /\ IF ok
       THEN /\ chat_out' = chat_out + 1
            /\ fin' = [fin EXCEPT !.left = @ - 1,
                                  !.pc = IF fin.left = 1 THEN "delete" ELSE "send"]
       ELSE /\ chat_out' = chat_out
            /\ fin' = IF fin.mode = "html"
                      THEN [fin EXCEPT !.mode = "plain", !.left = fin.plain_chunks]
                      ELSE [fin EXCEPT !.pc = "edit_trunc", !.left = 0]
    /\ UNCHANGED placeholder_msg
    /\ UNCHANGED finCoreVars

\* "new messages sent successfully, now safe to delete placeholder"
FinDelete(ok) ==
    /\ fin.pc = "delete"
    /\ placeholder_msg' = IF ok THEN "deleted" ELSE placeholder_msg
    /\ fin' = [fin EXCEPT !.pc = "finish"]
    /\ UNCHANGED chat_out
    /\ UNCHANGED finCoreVars

\* "last resort: edit placeholder with truncated plain text"
FinEditTruncated(ok) ==
    /\ fin.pc = "edit_trunc"
    /\ placeholder_msg' = IF ok THEN "final" ELSE placeholder_msg
    /\ fin' = [fin EXCEPT !.pc = "finish"]
    /\ UNCHANGED chat_out
    /\ UNCHANGED finCoreVars

\* the "Stopping..." message is deleted, the final critical section runs, the
\* task ends
FinRecord ==
    /\ fin.pc = "finish"
    /\ fin' = [fin EXCEPT !.pc = "end"]
    /\ sessions' = [sessions EXCEPT ![turn[1].chat] =
                      RecordTurn(@, rl[1].new_session_id, turn[1].user_text,
                                 Rendering(rl[1]))]
    /\ rl' = [rl EXCEPT ![1] = [RenderNone EXCEPT !.pc = "end"]]
    /\ chan' = [chan EXCEPT ![1] = [@ EXCEPT !.q = <<>>, !.rx = FALSE]]
    /\ UNCHANGED <<placeholder_msg, chat_out>>
    /\ UNCHANGED <<chats, cancel_tokens, stop_message_ids, tokens, h, nPrompts,
                   nUploads, nMessages, nLines, turn, rn, child, lock_stuck,
                   clearedSince, hist_log, hist_ops, rateVars, parseVars, extVars>>

NextFinal ==
    \/ \E ok \in BOOLEAN : FinEditHtml(ok)
    \/ \E ok \in BOOLEAN : FinEditPlain(ok)
    \/ \E ok \in BOOLEAN : FinSendChunk(ok)
    \/ \E ok \in BOOLEAN : FinDelete(ok)
    \/ \E ok \in BOOLEAN : FinEditTruncated(ok)
    \/ FinRecord

SpecFinal == InitFinal /\ [][NextFinal]_vars

\* ------------------------------------------------------- the rate limiter
\* Tasks that call shared_rate_limit_wait and then make their transport call,
\* with a clock.  The reservation is one critical section; sleep_until returns
\* at the reserved instant or later, and the call follows.
ReserveTargetNow(entry, t) == t

\* the instant shared_rate_limit_wait reserves at time t, given the chat's entry
ReserveTarget(entry, t) ==
    LET last == IF entry.present THEN entry.at ELSE t - FRESH_ENTRY_AGE_MS
        earliest_next == last + MIN_GAP_MS
    IN  IF earliest_next > t THEN earliest_next ELSE t

InitRate ==
    /\ RateIdle
    /\ ExtIdle
    /\ FinalIdle
    /\ ParseIdle
    /\ chats = {"c1"}
    /\ sessions = [c \in AllChats |-> NoSession]
    /\ cancel_tokens = [c \in AllChats |-> 0]
    /\ stop_message_ids = [c \in AllChats |-> 0]
    /\ tokens = [t \in Turns |-> [cancelled |-> FALSE, child_pid |-> 0]]
    /\ h = [c \in AllChats |-> HandlerIdle]
    /\ nPrompts = 0
    /\ nUploads = 0
    /\ nMessages = 0
    /\ nLines = 0
    /\ turn = [t \in Turns |-> NoTurn]
    /\ rn = [t \in Turns |-> RunnerNone]
    /\ child = [p \in Pids |-> ChildNone]
    /\ chan = [t \in Turns |-> [q |-> <<>>, open |-> TRUE, rx |-> TRUE]]
    /\ rl = [t \in Turns |-> RenderNone]
    /\ lock_stuck = FALSE
    /\ clearedSince = [t \in Turns |-> FALSE]
    /\ hist_log = <<>>
    /\ hist_ops = 0

\* the critical section of shared_rate_limit_wait
RwReserve(k, c) ==
    /\ waiter[k].pc = "idle"
    /\ Len(reserved_log) < MaxReservations
    /\ LET target == ReserveTarget(api_timestamps[c], now) IN
         /\ api_timestamps' = [api_timestamps EXCEPT ![c] = [present |-> TRUE, at |-> target]]
         /\ waiter' = [waiter EXCEPT ![k] =
                          [pc |-> "sleep", chat |-> c, sleep_until |-> target]]
         /\ reserved_log' = Append(reserved_log,
                                   [chat |-> c, target |-> target, at |-> now])
    /\ UNCHANGED <<now, call_log>>
    /\ UNCHANGED <<extVars, coreVars, finalVars, parseVars>>

\* sleep_until(target) has returned; the caller makes its transport call
RwCall(k) ==
    /\ waiter[k].pc = "sleep"
    /\ now >= waiter[k].sleep_until
    /\ call_log' = Append(call_log, [chat |-> waiter[k].chat, at |-> now])
    /\ waiter' = [waiter EXCEPT ![k] = WaiterIdle]
    /\ UNCHANGED <<now, api_timestamps, reserved_log>>
    /\ UNCHANGED <<extVars, coreVars, finalVars, parseVars>>

\* time passes
Tick ==
    /\ now < MaxClock
    /\ now' = now + ClockStep
    /\ UNCHANGED <<api_timestamps, waiter, reserved_log, call_log>>
    /\ UNCHANGED <<extVars, coreVars, finalVars, parseVars>>

NextRate ==
    \/ \E k \in 1..MaxWaiters, c \in AllChats : RwReserve(k, c)
    \/ \E k \in 1..MaxWaiters : RwCall(k)
    \/ Tick

SpecRate == InitRate /\ [][NextRate]_vars

\* --------------------------------------------- parsing of a result event
\* StreamMessage::Error { message } and StreamMessage::Done { result,
\* session_id }; an Option<String> is a sequence of at most one string
StreamMsg(type, text, session_id) ==
    [type |-> type, text |-> text, session_id |-> session_id, name |-> <<>>,
     is_error |-> FALSE]

\* Value::as_str
as_str(v) == IF v.t = "str" THEN <<v.s>> ELSE <<>>

\* Value::as_bool().unwrap_or(false)
as_bool_or_false(v) == v.t = "bool" /\ v.b

\* Vec<&str>::join("\n")
RECURSIVE JoinNL(_)
JoinNL(strs) ==
    IF strs = <<>> THEN <<>>
    ELSE IF Len(strs) = 1 THEN strs[1]
    ELSE strs[1] \o <<NL>> \o JoinNL(Tail(strs))

\* iter().filter_map(|v| v.as_str()).collect()
RECURSIVE StrElems(_)
StrElems(a) ==
    IF a = <<>> THEN <<>>
    ELSE as_str(a[1]) \o StrElems(Tail(a))

\* the errors member joined; no array: the default, an empty string
JoinedErrors(v) == IF v.t = "arr" THEN JoinNL(StrElems(v.a)) ELSE <<>>

ErrorMessageResultFirst(errors, result_text) ==
    IF ~TrimIsEmpty(result_text) THEN result_text
    ELSE IF errors # <<>> THEN errors
    ELSE <<"OMX execution failed">>

ErrorMessage(errors, result_text) ==
    IF errors # <<>> THEN errors
    ELSE IF ~TrimIsEmpty(result_text) THEN result_text
    ELSE <<"OMX execution failed">>

\* the "result" arm of parse_codex_stream_line
parse_result_event(json) ==
    LET opt == as_str(json.result)
        result_text == IF opt = <<>> THEN <<>> ELSE opt[1]
        session_id == as_str(json.session_id)
        is_error == as_bool_or_false(json.is_error)
    IN  (IF is_error
         THEN << StreamMsg("Error", ErrorMessage(JoinedErrors(json.errors), result_text),
                           <<>>) >>
         ELSE <<>>)
        \o << StreamMsg("Done", result_text, session_id) >>

ResultMembers == {JAbsent, JStr(<<>>), JStr(<<" ">>), JStr(<<"done">>), JNum}
SessionMembers == {JAbsent, JStr(<<"sess-2">>), JNum}
IsErrorMembers == {JAbsent, JBool(TRUE), JBool(FALSE), JStr(<<"true">>)}
ErrorsMembers ==
    {JAbsent, JArr(<<>>), JArr(<<JStr(<<"boom">>)>>),
     JArr(<<JStr(<<"a">>), JStr(<<"b">>)>>), JArr(<<JStr(<<>>)>>),
     JArr(<<JNum, JStr(<<"boom">>)>>), JStr(<<"boom">>)}

InitParse ==
    /\ \E r \in ResultMembers, sid \in SessionMembers, ie \in IsErrorMembers,
          es \in ErrorsMembers :
         parse_in = ResultEvent(r, sid, ie, es)
    /\ parse_out = <<>>
    /\ reader = ReaderNone
    /\ sent = <<>>
    /\ stderr_text = ""
    /\ retryable = <<>>
    /\ RateIdle
    /\ ExtIdle
    /\ FinalIdle
    /\ chats = {"c1"}
    /\ sessions = [c \in AllChats |-> NoSession]
    /\ cancel_tokens = [c \in AllChats |-> 0]
    /\ stop_message_ids = [c \in AllChats |-> 0]
    /\ tokens = [t \in Turns |-> [cancelled |-> FALSE, child_pid |-> 0]]
    /\ h = [c \in AllChats |-> HandlerIdle]
    /\ nPrompts = 0
    /\ nUploads = 0
    /\ nMessages = 0
    /\ nLines = 0
    /\ turn = [t \in Turns |-> NoTurn]
    /\ rn = [t \in Turns |-> RunnerNone]
    /\ child = [p \in Pids |-> ChildNone]
    /\ chan = [t \in Turns |-> [q |-> <<>>, open |-> TRUE, rx |-> TRUE]]
    /\ rl = [t \in Turns |-> RenderNone]
    /\ lock_stuck = FALSE
    /\ clearedSince = [t \in Turns |-> FALSE]
    /\ hist_log = <<>>
    /\ hist_ops = 0

\* the line is parsed
ParseLine ==
    /\ parse_out = <<>>
    /\ parse_out' = parse_result_event(parse_in)
    /\ UNCHANGED <<parse_in, reader, sent, resumeVars>>
    /\ UNCHANGED <<extVars, coreVars, finalVars, rateVars>>

NextParse == ParseLine

SpecParse == InitParse /\ [][NextParse]_vars

\* ------------------------------------------------- parsing of output lines
\* In these texts a character is a blank, a line break, or a token that
\* stands for a run of other characters.
UNSTABLE_NOTICE == <<"Under-development", " ", "features", " ", "enabled">>

\* str::trim_start, str::trim_end, str::trim
RECURSIVE TrimStart(_)
TrimStart(s) == IF s # <<>> /\ IsBlankChar(Head(s)) THEN TrimStart(Tail(s)) ELSE s

RECURSIVE TrimEnd(_)
TrimEnd(s) ==
    IF s # <<>> /\ IsBlankChar(s[Len(s)]) THEN TrimEnd(SubSeq(s, 1, Len(s) - 1)) ELSE s

Trim(s) == TrimEnd(TrimStart(s))

\* the decimal digits format!("{}", n) writes for an i64
RECURSIVE Digits(_)
Digits(n) ==
    LET d == <<"0", "1", "2", "3", "4", "5", "6", "7", "8", "9">>[(n % 10) + 1]
    IN  IF n < 10 THEN <<d>> ELSE Digits(n \div 10) \o <<d>>

FormatI64(n) == IF n < 0 THEN <<"-">> \o Digits(0 - n) ELSE Digits(n)

\* as_str().unwrap_or(dflt)
StrOr(v, dflt) == IF v.t = "str" THEN v.s ELSE dflt

ToolUse(name, input) == [StreamMsg("ToolUse", input, <<>>) EXCEPT !.name = name]
ToolResult(content, is_error) ==
    [StreamMsg("ToolResult", content, <<>>) EXCEPT !.is_error = is_error]

\* the members of json["item"] the parser reads; exit_code holds what
\* as_i64 returns for it
NoItem ==
    [present |-> FALSE, type |-> JAbsent, text |-> JAbsent, message |-> JAbsent,
     aggregated_output |-> JAbsent, exit_code |-> <<>>, command |-> JAbsent]

\* a block of json["message"]["content"]
Block(type, text, name, input) ==
    [type |-> type, text |-> text, name |-> name, input |-> input]

\* the members of an output line's JSON object the parser reads; content
\* holds what json["message"]["content"].as_array() returns
NoLine ==
    [type |-> JAbsent, subtype |-> JAbsent, session_id |-> JAbsent,
     thread_id |-> JAbsent, result |-> JAbsent, is_error |-> JAbsent,
     errors |-> JAbsent, item |-> NoItem, content |-> <<>>, has_content |-> FALSE]

TypedLine(type) == [NoLine EXCEPT !.type = JStr(type)]
ItemLine(type, item_type) ==
    [TypedLine(type) EXCEPT !.item = [NoItem EXCEPT !.present = TRUE, !.type = item_type]]

\* serde_json::to_string of a value that is not a string
ToJsonText(v) ==
    IF v.t = "bool" THEN (IF v.b THEN <<"true">> ELSE <<"false">>)
    ELSE IF v.t = "arr" THEN <<"[]">>
    ELSE <<"1.5">>

\* arm "system"
parse_system(json) ==
    IF as_str(json.subtype) = << <<"init">> >> /\ json.session_id.t = "str"
    THEN << StreamMsg("Init", <<>>, <<json.session_id.s>>) >>
    ELSE <<>>

\* one block of the "assistant" arm
parse_block(block) ==
    IF as_str(block.type) = << <<"text">> >>
    THEN (IF StrOr(block.text, <<>>) # <<>>
          THEN << StreamMsg("Text", StrOr(block.text, <<>>), <<>>) >>
          ELSE <<>>)
    ELSE IF as_str(block.type) = << <<"tool_use">> >>
    THEN << ToolUse(StrOr(block.name, <<"Tool">>),
                    IF block.input.t = "absent" THEN <<>>
                    ELSE IF block.input.t = "str" THEN block.input.s
                    ELSE ToJsonText(block.input)) >>
    ELSE <<>>

\* arm "assistant"
RECURSIVE parse_blocks(_)
parse_blocks(content) ==
    IF content = <<>> THEN <<>>
    ELSE parse_block(Head(content)) \o parse_blocks(Tail(content))

parse_assistant(json) == IF json.has_content THEN parse_blocks(json.content) ELSE <<>>

\* arm "thread.started"
parse_thread_started_by_session_id(json) ==
    IF json.session_id.t = "str"
    THEN << StreamMsg("Init", <<>>, <<json.session_id.s>>) >>
    ELSE <<>>

parse_thread_started(json) ==
    IF json.thread_id.t = "str"
    THEN << StreamMsg("Init", <<>>, <<json.thread_id.s>>) >>
    ELSE <<>>

\* arm "item.started"
parse_item_started(json) ==
    IF /\ json.item.present
       /\ as_str(json.item.type) = << <<"command_execution">> >>
       /\ StrOr(json.item.command, <<>>) # <<>>
    THEN << ToolUse(<<"Bash">>, StrOr(json.item.command, <<>>)) >>
    ELSE <<>>

\* "item.completed", Some("command_execution")
CommandContentOutputOnly(output, exit_code) == output

CommandContent(output, exit_code) ==
    IF output # <<>> THEN output
    ELSE <<"Command exited with code ">>
         \o FormatI64(IF exit_code = <<>> THEN 0 - 1 ELSE exit_code[1])

parse_command_execution(item) ==
    LET output == TrimEnd(StrOr(item.aggregated_output, <<>>))
        exit_code == item.exit_code
        is_error == (IF exit_code = <<>> THEN 0 ELSE exit_code[1]) # 0
    IN  IF output # <<>> \/ is_error
        THEN << ToolResult(CommandContent(output, exit_code), is_error) >>
        ELSE <<>>

\* "item.completed", Some("error")
IgnoredNoticeNever(message) == FALSE

IgnoredNotice(message) == Contains(message, UNSTABLE_NOTICE)

parse_item_error(item) ==
    LET message == Trim(StrOr(item.message, <<>>))
    IN  IF message # <<>> /\ ~IgnoredNotice(message)
        THEN << StreamMsg("Error", message, <<>>) >>
        ELSE <<>>

\* arm "item.completed"
parse_item_completed(json) ==
    IF ~json.item.present THEN <<>>
    ELSE IF as_str(json.item.type) = << <<"agent_message">> >>
    THEN (IF StrOr(json.item.text, <<>>) # <<>>
          THEN << StreamMsg("Text", StrOr(json.item.text, <<>>), <<>>) >>
          ELSE <<>>)
    ELSE IF as_str(json.item.type) = << <<"command_execution">> >>
    THEN parse_command_execution(json.item)
    ELSE IF as_str(json.item.type) = << <<"error">> >>
    THEN parse_item_error(json.item)
    ELSE <<>>

\* the match on json["type"]
parse_codex_stream_line(json) ==
    IF json.type.t # "str" THEN <<>>
    ELSE IF json.type.s = <<"system">> THEN parse_system(json)
    ELSE IF json.type.s = <<"assistant">> THEN parse_assistant(json)
    ELSE IF json.type.s = <<"result">>
    THEN parse_result_event(ResultEvent(json.result, json.session_id, json.is_error,
                                        json.errors))
    ELSE IF json.type.s = <<"thread.started">> THEN parse_thread_started(json)
    ELSE IF json.type.s = <<"item.started">> THEN parse_item_started(json)
    ELSE IF json.type.s = <<"item.completed">> THEN parse_item_completed(json)
    ELSE IF json.type.s = <<"turn.completed">> THEN << StreamMsg("Done", <<>>, <<>>) >>
    ELSE <<>>

\* ------------------------------------------------ the read loop of an attempt
\* what read_line put into line_buf: blank after trim, or not; valid JSON, or
\* not; the value it parses to
RawLine(json) == [blank |-> FALSE, valid |-> TRUE, json |-> json]
BlankLine == [blank |-> TRUE, valid |-> FALSE, json |-> NoLine]
GarbageLine == [blank |-> FALSE, valid |-> FALSE, json |-> NoLine]

IdMembers == {JAbsent, JStr(<<"id-1">>), JNum}

ThreadStartedLines ==
    { [TypedLine(<<"thread.started">>) EXCEPT !.thread_id = tid, !.session_id = sid] :
        tid \in IdMembers, sid \in {JAbsent, JStr(<<"id-2">>)} }

SystemLines ==
    { [TypedLine(<<"system">>) EXCEPT !.subtype = st, !.session_id = sid] :
        st \in {JAbsent, JStr(<<"init">>), JStr(<<"status">>), JNum},
        sid \in IdMembers }

ErrorTexts ==
    { <<>>, <<" ", NL>>, <<"boom">>, <<" ", "boom", " ", "x", NL>>,
      UNSTABLE_NOTICE, <<"warning:", " ">> \o UNSTABLE_NOTICE \o <<":", " ", "x">>,
      <<"features", " ", "enabled">> }

ItemErrorLines ==
    { [ItemLine(<<"item.completed">>, JStr(<<"error">>)) EXCEPT !.item.message = m] :
        m \in {JAbsent, JNum} \cup { JStr(txt) : txt \in ErrorTexts } }

OutputTexts == { <<>>, <<" ", NL>>, <<"ok">>, <<" ", "ok", NL, " ">> }
ExitCodes == { <<>>, <<0>>, <<1>>, <<127>>, <<0 - 1>> }

CommandLines ==
    { [ItemLine(<<"item.completed">>, JStr(<<"command_execution">>)) EXCEPT
          !.item.aggregated_output = o, !.item.exit_code = e] :
        o \in {JAbsent} \cup { JStr(txt) : txt \in OutputTexts }, e \in ExitCodes }

OtherLines ==
    { NoLine, [NoLine EXCEPT !.type = JNum], TypedLine(<<"turn.started">>),
      TypedLine(<<"turn.completed">>), TypedLine(<<"item.completed">>),
      ItemLine(<<"item.completed">>, JStr(<<"reasoning">>)),
      ItemLine(<<"item.completed">>, JAbsent),
      [ItemLine(<<"item.completed">>, JStr(<<"agent_message">>)) EXCEPT
          !.item.text = JStr(<<"hi">>)],
      ItemLine(<<"item.completed">>, JStr(<<"agent_message">>)),
      [ItemLine(<<"item.started">>, JStr(<<"command_execution">>)) EXCEPT
          !.item.command = JStr(<<"ls">>)],
      ItemLine(<<"item.started">>, JStr(<<"command_execution">>)),
      [TypedLine(<<"result">>) EXCEPT !.result = JStr(<<"done">>),
                                     !.session_id = JStr(<<"id-1">>)],
      [TypedLine(<<"result">>) EXCEPT !.is_error = JBool(TRUE)],
      [TypedLine(<<"assistant">>) EXCEPT
          !.has_content = TRUE,
          !.content = << Block(JStr(<<"text">>), JStr(<<"hi">>), JAbsent, JAbsent),
                         Block(JStr(<<"text">>), JStr(<<>>), JAbsent, JAbsent),
                         Block(JStr(<<"tool_use">>), JAbsent, JStr(<<"Read">>),
                               JBool(TRUE)),
                         Block(JStr(<<"tool_use">>), JAbsent, JAbsent, JStr(<<"x">>)),
                         Block(JStr(<<"thinking">>), JAbsent, JAbsent, JAbsent) >>],
      TypedLine(<<"assistant">>) }

OutputLines ==
    {BlankLine, GarbageLine}
    \cup { RawLine(j) : j \in ThreadStartedLines \cup SystemLines \cup ItemErrorLines
                              \cup CommandLines \cup OtherLines }

\* the match on the message before the send
BeforeSend(r, msg) ==
    IF msg.type = "Init" THEN [r EXCEPT !.last_session_id = msg.session_id]
    ELSE IF msg.type = "Done" THEN [r EXCEPT !.done_sent = TRUE]
    ELSE r

\* "if session_id.is_none() { *session_id = last_session_id.clone() }"
Outgoing(r, msg) ==
    IF msg.type = "Done" /\ msg.session_id = <<>>
    THEN [msg EXCEPT !.session_id = r.last_session_id]
    ELSE msg

\* "for mut msg in parsed": the locals and the messages sent after the
\* messages from the k-th on; a failed send ends the for loop
RECURSIVE Forward(_, _, _, _)
Forward(r, out, parsed, k) ==
    IF k > Len(parsed) THEN [reader |-> r, sent |-> out]
    ELSE LET r1 == BeforeSend(r, parsed[k]) IN
         IF ~r.rx THEN [reader |-> r1, sent |-> out]
         ELSE Forward([r1 EXCEPT !.emitted_message_count = @ + 1],
                      Append(out, Outgoing(r, parsed[k])), parsed, k + 1)

\* a line from which nothing is parsed: "continue"
SkipLineBreak(r) == [r EXCEPT !.pc = "eof"]

SkipLine(r) == r

InitLine ==
    /\ parse_in = BlankLine
    /\ parse_out = <<>>
    /\ reader = [ReaderNone EXCEPT !.pc = "read"]
    /\ sent = <<>>
    /\ stderr_text = ""
    /\ retryable = <<>>
    /\ RateIdle
    /\ ExtIdle
    /\ FinalIdle
    /\ chats = {"c1"}
    /\ sessions = [c \in AllChats |-> NoSession]
    /\ cancel_tokens = [c \in AllChats |-> 0]
    /\ stop_message_ids = [c \in AllChats |-> 0]
    /\ tokens = [t \in Turns |-> [cancelled |-> FALSE, child_pid |-> 0]]
    /\ h = [c \in AllChats |-> HandlerIdle]
    /\ nPrompts = 0
    /\ nUploads = 0
    /\ nMessages = 0
    /\ nLines = 0
    /\ turn = [t \in Turns |-> NoTurn]
    /\ rn = [t \in Turns |-> RunnerNone]
    /\ child = [p \in Pids |-> ChildNone]
    /\ chan = [t \in Turns |-> [q |-> <<>>, open |-> TRUE, rx |-> TRUE]]
    /\ rl = [t \in Turns |-> RenderNone]
    /\ lock_stuck = FALSE
    /\ clearedSince = [t \in Turns |-> FALSE]
    /\ hist_log = <<>>
    /\ hist_ops = 0

\* one iteration of the read loop past the cancel test: read_line returns a
\* line; it is trimmed, parsed as JSON, handed to the parser, and what the
\* parser returns is sent
LnRead(raw) ==
    /\ reader.pc = "read"
    /\ reader.lines < MaxLines
    /\ parse_in' = raw
    /\ LET r == [reader EXCEPT !.lines = @ + 1] IN
         IF raw.blank \/ ~raw.valid
         THEN /\ parse_out' = <<>>
              /\ reader' = SkipLine(r)
              /\ sent' = sent
         ELSE LET parsed == parse_codex_stream_line(raw.json)
                  f == Forward(r, sent, parsed, 1)
              IN  /\ parse_out' = parsed
                  /\ reader' = f.reader
                  /\ sent' = f.sent
    /\ UNCHANGED <<extVars, coreVars, finalVars, rateVars, resumeVars>>

\* read_line returns 0: "break"
LnEOF ==
    /\ reader.pc = "read"
    /\ reader' = [reader EXCEPT !.pc = "eof"]
    /\ UNCHANGED <<parse_in, parse_out, sent>>
    /\ UNCHANGED <<extVars, coreVars, finalVars, rateVars, resumeVars>>

\* the render task ends and drops the receiver
LnReceiverDropped ==
    /\ reader.pc = "read"
    /\ reader.rx
    /\ reader' = [reader EXCEPT !.rx = FALSE]
    /\ UNCHANGED <<parse_in, parse_out, sent>>
    /\ UNCHANGED <<extVars, coreVars, finalVars, rateVars, resumeVars>>

NextLine ==
    \/ \E raw \in OutputLines : LnRead(raw)
    \/ LnEOF
    \/ LnReceiverDropped

SpecLine == InitLine /\ [][NextLine]_vars

\* ------------------------------------------- the stale-resume classification
StderrCores ==
    { known_patterns[k] : k \in 1..Len(known_patterns) }
    \cup { "Thread Not Found", "FAILED TO RESUME session", "Unknown Session 42",
           "--resume abc: not found", "resume id does not exist",
           "resume x: unknown", "no such file for --resume", "resume token expired",
           "invalid argument after --resume", "Resume 42: Not Found",
           "use --resume to continue", "resume later", "presume nothing not found",
           "resumed: not found", "resume", "file not found", "unknown option",
           "invalid api key", "token expired", "path does not exist",
           "network timeout while contacting API", "thread not", "" }

StderrTexts ==
    { pre \o core \o post :
        pre \in {"", "Error: "}, core \in StderrCores, post \in {"", "\n"} }

InitResume ==
    /\ stderr_text \in StderrTexts
    /\ retryable = <<>>
    /\ parse_in = ResultEvent(JAbsent, JAbsent, JAbsent, JAbsent)
    /\ parse_out = <<>>
    /\ reader = ReaderNone
    /\ sent = <<>>
    /\ RateIdle
    /\ ExtIdle
    /\ FinalIdle
    /\ chats = {"c1"}
    /\ sessions = [c \in AllChats |-> NoSession]
    /\ cancel_tokens = [c \in AllChats |-> 0]
    /\ stop_message_ids = [c \in AllChats |-> 0]
    /\ tokens = [t \in Turns |-> [cancelled |-> FALSE, child_pid |-> 0]]
    /\ h = [c \in AllChats |-> HandlerIdle]
    /\ nPrompts = 0
    /\ nUploads = 0
    /\ nMessages = 0
    /\ nLines = 0
    /\ turn = [t \in Turns |-> NoTurn]
    /\ rn = [t \in Turns |-> RunnerNone]
    /\ child = [p \in Pids |-> ChildNone]
    /\ chan = [t \in Turns |-> [q |-> <<>>, open |-> TRUE, rx |-> TRUE]]
    /\ rl = [t \in Turns |-> RenderNone]
    /\ lock_stuck = FALSE
    /\ clearedSince = [t \in Turns |-> FALSE]
    /\ hist_log = <<>>
    /\ hist_ops = 0

\* the orchestrator classifies the stderr text of a failed attempt
Classify ==
    /\ retryable = <<>>
    /\ retryable' = << is_retryable_resume_error(stderr_text) >>
    /\ UNCHANGED <<stderr_text, lineVars>>
    /\ UNCHANGED <<extVars, coreVars, finalVars, rateVars>>

NextResume == Classify

SpecResume == InitResume /\ [][NextResume]_vars

\* ------------------------------------- cancellation against the attempt runner
\* One turn of chat c1 with the steps of the runner thread and of /stop taken
\* one at a time: spawn, the pid stored in the token, the cancel test before
\* each read_line, the test after the loop; the flag set, then the pid read
\* and signalled.
InitCancel ==
    /\ \E sid \in {0, OldSid}, stop \in BOOLEAN :
         /\ turn = [t \in Turns |->
                      IF t = 1 THEN [NoTurn EXCEPT !.user_text = PromptText(1),
                                                   !.session_id = sid]
                      ELSE NoTurn]
         /\ rn = [t \in Turns |->
                    IF t = 1 THEN [RunnerNone EXCEPT !.pc = "start", !.attempt = 1,
                                                     !.attempt_session_id = sid]
                    ELSE RunnerNone]
         /\ sessions = [c \in AllChats |->
                          IF c = "c1" THEN [NewSession EXCEPT !.session_id = sid]
                          ELSE NoSession]
         /\ h = [c \in AllChats |->
                   IF c = "c1" /\ stop
                   THEN [HandlerIdle EXCEPT !.pc = "check", !.kind = "stop"]
                   ELSE HandlerIdle]
         /\ nMessages = IF stop THEN 2 ELSE 1
    /\ chats = {"c1"}
    /\ cancel_tokens = [c \in AllChats |-> IF c = "c1" THEN 1 ELSE 0]
    /\ stop_message_ids = [c \in AllChats |-> 0]
    /\ tokens = [t \in Turns |-> [cancelled |-> FALSE, child_pid |-> 0]]
    /\ nPrompts = 1
    /\ nUploads = 0
    /\ nLines = 0
    /\ child = [p \in Pids |-> ChildNone]
    /\ chan = [t \in Turns |-> [q |-> <<>>, open |-> TRUE, rx |-> TRUE]]
    /\ rl = [t \in Turns |-> IF t = 1 THEN [RenderNone EXCEPT !.pc = "loop"]
                             ELSE RenderNone]
    /\ lock_stuck = FALSE
    /\ clearedSince = [t \in Turns |-> FALSE]
    /\ hist_log = <<>>
    /\ hist_ops = 0
    /\ AuxIdle

\* token.cancelled.load(Relaxed) in the runner
FlagSeenNever(tok) == FALSE

FlagSeen(tok) == tok.cancelled

\* Command::spawn
CnSpawn(t, ok) ==
    /\ rn[t].pc = "start"
    /\ LET p == PidOf(t, rn[t].attempt) IN
         IF ok
         THEN /\ child' = [child EXCEPT ![p] = [state |-> "running", exit |-> "none"]]
              /\ rn' = [rn EXCEPT ![t].pc = "register"]
              /\ chan' = chan
         ELSE /\ child' = child
              /\ rn' = [rn EXCEPT ![t] = RunnerDone]
              /\ chan' = [chan EXCEPT ![t] =
                            DropSender(Send(@, Event("Error", 0, <<"Failed to start">>)))]
    /\ UNCHANGED <<tokens, turn, rl, h>>
    /\ UNCHANGED countVars
    /\ UNCHANGED ghostVars
    /\ UNCHANGED sharedVars
    /\ UNCHANGED restVars

\* "*token.child_pid.lock().unwrap() = Some(child.id())"
CnRegister(t) ==
    /\ rn[t].pc = "register"
    /\ tokens' = [tokens EXCEPT ![t].child_pid = PidOf(t, rn[t].attempt)]
    /\ rn' = [rn EXCEPT ![t].pc = "check"]
    /\ UNCHANGED <<turn, child, chan, rl, h>>
    /\ UNCHANGED countVars
    /\ UNCHANGED ghostVars
    /\ UNCHANGED sharedVars
    /\ UNCHANGED restVars

\* the cancel test at the top of the read loop: kill, wait, Cancelled, or on
\* to read_line
CnCheck(t) ==
    /\ rn[t].pc = "check"
    /\ IF FlagSeen(tokens[t])
       THEN /\ child' = Reap(child, PidOf(t, rn[t].attempt))
            /\ rn' = [rn EXCEPT ![t] = RunnerDone]
            /\ chan' = [chan EXCEPT ![t] = CancelledOutcome(@, rn[t])]
       ELSE /\ rn' = [rn EXCEPT ![t].pc = "read"]
            /\ UNCHANGED <<child, chan>>
    /\ UNCHANGED <<tokens, turn, rl, h>>
    /\ UNCHANGED countVars
    /\ UNCHANGED ghostVars
    /\ UNCHANGED sharedVars
    /\ UNCHANGED restVars

\* read_line returns a line of the running subprocess; its event is forwarded
CnReadLine(t, ev) ==
    /\ rn[t].pc = "read"
    /\ child[PidOf(t, rn[t].attempt)].state = "running"
    /\ nLines < MaxEvents
    /\ ev \in ChildEvents(PidOf(t, rn[t].attempt), rn[t].last)
    /\ rn' = [rn EXCEPT
                ![t].pc = "check",
                ![t].last = Rank(ev.type),
                ![t].last_session_id = IF ev.type = "Init" THEN ev.sid ELSE @,
                ![t].done_sent = @ \/ ev.type = "Done",
                ![t].emitted = IF chan[t].rx THEN @ + 1 ELSE @]
    /\ chan' = [chan EXCEPT ![t] = Send(@, FillDone(ev, rn[t].last_session_id))]
    /\ nLines' = nLines + 1
    /\ UNCHANGED <<tokens, turn, child, rl, h>>
    /\ UNCHANGED <<chats, nPrompts, nUploads, nMessages>>
    /\ UNCHANGED ghostVars
    /\ UNCHANGED sharedVars
    /\ UNCHANGED restVars

\* read_line returns 0: the subprocess has closed its output
CnReadEOF(t) ==
    /\ rn[t].pc = "read"
    /\ child[PidOf(t, rn[t].attempt)].state = "exited"
    /\ rn' = [rn EXCEPT ![t].pc = "after"]
    /\ UNCHANGED <<tokens, turn, child, chan, rl, h>>
    /\ UNCHANGED countVars
    /\ UNCHANGED ghostVars
    /\ UNCHANGED sharedVars
    /\ UNCHANGED restVars

\* the cancel test after the loop (kill, wait, Cancelled); else child.wait()
\* and the orchestrator's decision, as in RnEOF
CnAfter(t) ==
    /\ rn[t].pc = "after"
    /\ LET p == PidOf(t, rn[t].attempt)
           ex == child[p].exit
       IN  /\ child' = Reap(child, p)
           /\ IF FlagSeen(tokens[t])
              THEN /\ rn' = [rn EXCEPT ![t] = RunnerDone]
                   /\ chan' = [chan EXCEPT ![t] = CancelledOutcome(@, rn[t])]
              ELSE IF ShouldRetry(rn[t], ex)
              THEN /\ rn' = [rn EXCEPT ![t] = [@ EXCEPT
                                !.pc = "start", !.attempt = @ + 1,
                                !.attempt_session_id = 0, !.retried = TRUE,
                                !.last_session_id = 0, !.done_sent = FALSE,
                                !.emitted = 0, !.last = 0]]
                   /\ chan' = chan
              ELSE /\ rn' = [rn EXCEPT ![t].pc = "synth_done"]
                   /\ chan' = IF ex # "ok"
                              THEN [chan EXCEPT ![t] = Send(@, Event("Error", 0, ErrorText(ex)))]
                              ELSE chan
    /\ UNCHANGED <<tokens, turn, rl, h>>
    /\ UNCHANGED countVars
    /\ UNCHANGED ghostVars
    /\ UNCHANGED sharedVars
    /\ UNCHANGED restVars

\* handle_stop_command after the token lookup: the rate-limited "Stopping..."
\* send (a transport error leaves by `?`), stop_message_ids.insert,
\* token.cancelled.store(true)
CsFlag(c, ok) ==
    /\ h[c].pc = "stop_send"
    /\ IF ok
       THEN /\ stop_message_ids' = [stop_message_ids EXCEPT ![c] = 1]
            /\ tokens' = [tokens EXCEPT ![h[c].tok].cancelled = TRUE]
            /\ h' = [h EXCEPT ![c].pc = "stop_signal"]
       ELSE /\ UNCHANGED <<stop_message_ids, tokens>>
            /\ h' = [h EXCEPT ![c] = HandlerIdle]
    /\ UNCHANGED <<sessions, cancel_tokens>>
    /\ UNCHANGED <<turn, rn, child, chan, rl>>
    /\ UNCHANGED countVars
    /\ UNCHANGED ghostVars
    /\ UNCHANGED restVars

\* "if let Some(pid) = *guard { libc::kill(pid, SIGTERM) }"
CsSignal(c) ==
    /\ h[c].pc = "stop_signal"
    /\ child' = Sigterm(child, tokens[h[c].tok].child_pid)
    /\ h' = [h EXCEPT ![c] = HandlerIdle]
    /\ UNCHANGED <<tokens, turn, rn, chan, rl>>
    /\ UNCHANGED countVars
    /\ UNCHANGED ghostVars
    /\ UNCHANGED sharedVars
    /\ UNCHANGED restVars

RunnerCancelStep(t) ==
    \/ \E ok \in BOOLEAN : CnSpawn(t, ok)
    \/ CnRegister(t)
    \/ CnCheck(t)
    \/ \E ev \in ChildEvents(PidOf(t, rn[t].attempt), rn[t].last) : CnReadLine(t, ev)
    \/ CnReadEOF(t)
    \/ CnAfter(t)
    \/ RnSynthDone(t)

StopStep(c) ==
    \/ HsBegin(c)
    \/ \E ok \in BOOLEAN : CsFlag(c, ok)
    \/ CsSignal(c)

NextCancel ==
    \/ RunnerCancelStep(1)
    \/ StopStep("c1")
    \/ RenderStep(1)
    \/ \E p \in Pids, ex \in ExitKinds : ChildExit(p, ex)

SpecCancel == InitCancel /\ [][NextCancel]_vars

\* the runner thread and the /stop handler keep running
FairSpecCancel ==
    /\ SpecCancel
    /\ WF_vars(RunnerCancelStep(1))
    /\ WF_vars(StopStep("c1"))

\* ------------------------------------------- the polling loop, step by step
\* The render task of turn 1 with one statement of its loop per step, next to
\* the runner thread that forwards events on the turn's channel and the /stop
\* handler that sets the turn's flag.
MaxQueued == 3
MaxIters == 3

TELEGRAM_MSG_LIMIT == 4096

SPINNER ==
    << "P", "Pr", "Pro", "Proc", "Proce", "Proces", "Process", "Processi",
       "Processin", "Processing", "Processing.", "Processing.." >>

\* truncate_str: the text as it is when it fits, else cut at max_len and then
\* at the last line break before the cut
truncate_str(s, max_len) ==
    IF Len(s) <= max_len THEN s
    ELSE LET truncated == SubSeq(s, 1, max_len)
             breaks == { i \in 1..Len(truncated) : truncated[i] = NL }
         IN  IF breaks # {}
             THEN SubSeq(truncated, 1, (CHOOSE i \in breaks : \A j \in breaks : j <= i) - 1)
             ELSE truncated

\* the display text without the indicator
DisplayTextBare(r) ==
    truncate_str(normalize_empty_lines(r.full_response), TELEGRAM_MSG_LIMIT - 20)

\* "Build display text with spinning clock+text indicator appended"
DisplayText(r) ==
    LET indicator == SPINNER[(r.spin_idx % Len(SPINNER)) + 1]
    IN  IF r.full_response = <<>> THEN <<indicator>>
        ELSE truncate_str(normalize_empty_lines(r.full_response),
                          TELEGRAM_MSG_LIMIT - 20) \o <<NL, NL, indicator>>

\* what the runner of the turn forwards: session announcements, text, the
\* completion with or without a result and a session id, errors
PollEvents ==
    { Event("Init", 1, <<>>), Event("Text", 0, <<"a">>), Event("Done", 0, <<>>),
      Event("Done", 2, <<"r">>), Event("Error", 0, <<"e">>) }

InitRender ==
    /\ poll = [PollNone EXCEPT !.pc = "top"]
    /\ chats = {"c1"}
    /\ \E sid \in {0, OldSid} :
         sessions = [c \in AllChats |->
                       IF c = "c1" THEN [NewSession EXCEPT !.session_id = sid]
                       ELSE NoSession]
    /\ cancel_tokens = [c \in AllChats |-> IF c = "c1" THEN 1 ELSE 0]
    /\ stop_message_ids = [c \in AllChats |-> 0]
    /\ tokens = [t \in Turns |-> [cancelled |-> FALSE, child_pid |-> 0]]
    /\ h = [c \in AllChats |-> HandlerIdle]
    /\ nPrompts = 1
    /\ nUploads = 0
    /\ nMessages = 1
    /\ nLines = 0
    /\ turn = [t \in Turns |->
                 IF t = 1 THEN [NoTurn EXCEPT !.user_text = PromptText(1),
                                              !.session_id = sessions["c1"].session_id]
                 ELSE NoTurn]
    /\ rn = [t \in Turns |->
               IF t = 1 THEN [RunnerNone EXCEPT !.pc = "read", !.attempt = 1]
               ELSE RunnerNone]
    /\ child = [p \in Pids |-> ChildNone]
    /\ chan = [t \in Turns |-> [q |-> <<>>, open |-> TRUE, rx |-> TRUE]]
    /\ rl = [t \in Turns |-> RenderNone]
    /\ lock_stuck = FALSE
    /\ clearedSince = [t \in Turns |-> FALSE]
    /\ hist_log = <<>>
    /\ hist_ops = 0
    /\ FinalIdle
    /\ RateIdle
    /\ ParseIdle
    /\ pipes = PipesNone
    /\ auth = AuthNone

\* what no step of this specification changes
renderFrame ==
    <<chats, h, nPrompts, nUploads, nMessages, turn, rn, child, rl, lock_stuck,
      clearedSince, hist_log, hist_ops, finalVars, rateVars, parseVars, pipes, auth>>

\* the runner thread forwards an event: sender.send(msg)
PlSend(ev) ==
    /\ chan[1].open
    /\ nLines < MaxQueued
    /\ ev \in PollEvents
    /\ chan' = [chan EXCEPT ![1] = Send(@, ev)]
    /\ nLines' = nLines + 1
    /\ UNCHANGED <<poll, sessions, cancel_tokens, stop_message_ids, tokens>>
    /\ UNCHANGED renderFrame

\* the runner thread returns; its senders are dropped
PlSenderDrop ==
    /\ chan[1].open
    /\ chan' = [chan EXCEPT ![1] = DropSender(@)]
    /\ UNCHANGED <<poll, sessions, cancel_tokens, stop_message_ids, tokens, nLines>>
    /\ UNCHANGED renderFrame

\* /stop finds the token of the turn registered: the "Stopping..." message,
\* stop_message_ids.insert, token.cancelled.store(true)
PlStop ==
    /\ cancel_tokens["c1"] = 1
    /\ ~tokens[1].cancelled
    /\ tokens' = [tokens EXCEPT ![1].cancelled = TRUE]
    /\ stop_message_ids' = [stop_message_ids EXCEPT !["c1"] = 1]
    /\ UNCHANGED <<poll, sessions, cancel_tokens, chan, nLines>>
    /\ UNCHANGED renderFrame

\* "while !done", the cancel test, the start of the 3 s sleep
PlTop ==
    /\ poll.pc = "top"
    /\ poll.done \/ tokens[1].cancelled \/ poll.spin_idx < MaxIters
    /\ poll' = IF poll.done THEN [poll EXCEPT !.pc = "fin"]
               ELSE IF tokens[1].cancelled
                    THEN [poll EXCEPT !.pc = "fin", !.cancelled = TRUE]
                    ELSE [poll EXCEPT !.pc = "sleep"]
    /\ UNCHANGED <<sessions, cancel_tokens, stop_message_ids, tokens, chan, nLines>>
    /\ UNCHANGED renderFrame

\* the sleep ends; "Check cancel token again after sleep"
PlWake ==
    /\ poll.pc = "sleep"
    /\ poll' = IF tokens[1].cancelled
               THEN [poll EXCEPT !.pc = "fin", !.cancelled = TRUE]
               ELSE [poll EXCEPT !.pc = "drain"]
    /\ UNCHANGED <<sessions, cancel_tokens, stop_message_ids, tokens, chan, nLines>>
    /\ UNCHANGED renderFrame

\* the drain leaves its loop at the first Done or Error
DrainEndsAtDone(r, channel) == channel.q = <<>> \/ r.done

\* the drain leaves its loop when try_recv returns Empty or Disconnected
DrainEnds(r, channel) == channel.q = <<>>

\* one rx.try_recv() of "Drain all available messages": a message is applied
\* to the locals; Empty breaks; Disconnected sets done and breaks
PlRecv ==
    /\ poll.pc = "drain"
    /\ IF DrainEnds(poll, chan[1])
       THEN /\ poll' = [poll EXCEPT !.pc = "render",
                                    !.done = @ \/ (chan[1].q = <<>> /\ ~chan[1].open)]
            /\ chan' = chan
       ELSE LET ev == Head(chan[1].q)
                r == ApplyEvent(poll, ev)
                first == ev.type \in {"Done", "Error"} /\ poll.term_at = 0
            IN  /\ poll' = [r EXCEPT
                              !.received = Append(@, ev),
                              !.term_at = IF first THEN Len(poll.received) + 1 ELSE @,
                              !.queued_then = IF first THEN Tail(chan[1].q) ELSE @,
                              !.owed = IF first THEN Len(chan[1].q) - 1
                                       ELSE IF @ > 0 THEN @ - 1 ELSE 0]
                /\ chan' = [chan EXCEPT ![1].q = Tail(@)]
    /\ UNCHANGED <<sessions, cancel_tokens, stop_message_ids, tokens, nLines>>
    /\ UNCHANGED renderFrame

\* "if display_text != last_edit_text": the test that sends the incremental edit
DisplayChanged(r) == DisplayText(r) # r.last_edit_text

\* the display text, then the incremental edit (its result is only logged) or
\* the typing signal, each after shared_rate_limit_wait
PlPush ==
    /\ poll.pc = "render"
    /\ LET display_text == DisplayText(poll)
           r == [poll EXCEPT !.spin_idx = @ + 1, !.pc = "top"]
       IN  poll' = IF DisplayChanged(poll) /\ ~poll.done
                   THEN [r EXCEPT !.last_edit_text = display_text,
                                  !.pushed = Append(@, "edit"),
                                  !.shown = poll.full_response]
                   ELSE IF ~poll.done
                        THEN [r EXCEPT !.pushed = Append(@, "typing")]
                        ELSE r
    /\ UNCHANGED <<sessions, cancel_tokens, stop_message_ids, tokens, chan, nLines>>
    /\ UNCHANGED renderFrame

\* "Remove cancel token and take stop message ID (processing is done)"
PlFinLock ==
    /\ poll.pc = "fin"
    /\ cancel_tokens' = RemoveToken(cancel_tokens, "c1")
    /\ stop_message_ids' = [stop_message_ids EXCEPT !["c1"] = 0]
    /\ poll' = [poll EXCEPT !.pc = "final"]
    /\ UNCHANGED <<sessions, tokens, chan, nLines>>
    /\ UNCHANGED renderFrame

\* the final text rendered into the placeholder, the final critical section,
\* the end of the task
PlRecord ==
    /\ poll.pc = "final"
    /\ sessions' = [sessions EXCEPT !["c1"] =
                      RecordTurn(@, poll.new_session_id, turn[1].user_text,
                                 Rendering(poll))]
    /\ poll' = [poll EXCEPT !.pc = "end"]
    /\ chan' = [chan EXCEPT ![1] = [@ EXCEPT !.q = <<>>, !.rx = FALSE]]
    /\ UNCHANGED <<cancel_tokens, stop_message_ids, tokens, nLines>>
    /\ UNCHANGED renderFrame

NextRender ==
    \/ \E ev \in PollEvents : PlSend(ev)
    \/ PlSenderDrop
    \/ PlStop
    \/ PlTop
    \/ PlWake
    \/ PlRecv
    \/ PlPush
    \/ PlFinLock
    \/ PlRecord

SpecRender == InitRender /\ [][NextRender]_vars

\* --------------------------------------------- the pipes of one subprocess
\* execute_command_streaming_once and its subprocess on the three pipes.
\* Amounts are counted in units of which a pipe holds PipeCap; a write blocks
\* while the pipe is full, a read blocks while it is empty and a writer has it
\* open.  pipes.pc is the runner thread, pipes.err_pc the stderr thread,
\* pipes.prog the operations the subprocess performs before it exits and
\* pipes.at the one it is in, with pipes.left units of it to go.
PipeCap == 1
MaxPrompt == 2
MaxOutput == 2
MaxOps == 3

\* an operation of the subprocess: read its input to the end, write n units
\* to its output, write n units to its error stream
ChildOps ==
    { [op |-> "read", n |-> 0] }
      \cup { [op |-> o, n |-> n] : o \in {"out", "err"}, n \in 1..MaxOutput }

ChildProgs ==
    UNION { [1..k -> ChildOps] : k \in 0..MaxOps }

InitPipe ==
    /\ \E size \in 1..MaxPrompt, prog \in ChildProgs :
         pipes = [PipesNone EXCEPT
                    !.pc = "write", !.to_write = size, !.stdin_open = TRUE,
                    !.prog = prog, !.at = 1,
                    !.left = IF prog = <<>> THEN 0 ELSE prog[1].n]
    /\ poll = PollNone
    /\ auth = AuthNone
    /\ chats = {"c1"}
    /\ sessions = [c \in AllChats |-> IF c = "c1" THEN NewSession ELSE NoSession]
    /\ cancel_tokens = [c \in AllChats |-> IF c = "c1" THEN 1 ELSE 0]
    /\ stop_message_ids = [c \in AllChats |-> 0]
    /\ tokens = [t \in Turns |->
                   [cancelled |-> FALSE, child_pid |-> IF t = 1 THEN PidOf(1, 1) ELSE 0]]
    /\ h = [c \in AllChats |-> HandlerIdle]
    /\ nPrompts = 1
    /\ nUploads = 0
    /\ nMessages = 1
    /\ nLines = 0
    /\ turn = [t \in Turns |->
                 IF t = 1 THEN [NoTurn EXCEPT !.user_text = PromptText(1)] ELSE NoTurn]
    /\ rn = [t \in Turns |->
               IF t = 1 THEN [RunnerNone EXCEPT !.pc = "read", !.attempt = 1]
               ELSE RunnerNone]
    /\ child = [p \in Pids |->
                  IF p = PidOf(1, 1) THEN [state |-> "running", exit |-> "none"]
                  ELSE ChildNone]
    /\ chan = [t \in Turns |-> [q |-> <<>>, open |-> TRUE, rx |-> TRUE]]
    /\ rl = [t \in Turns |-> IF t = 1 THEN [RenderNone EXCEPT !.pc = "loop"] ELSE RenderNone]
    /\ lock_stuck = FALSE
    /\ clearedSince = [t \in Turns |-> FALSE]
    /\ hist_log = <<>>
    /\ hist_ops = 0
    /\ FinalIdle
    /\ RateIdle
    /\ ParseIdle

pipeFrame == <<coreVars, finalVars, rateVars, parseVars, poll, auth>>

\* stdin.write_all(full_prompt): one unit goes into the pipe when it has room;
\* a write to a pipe whose reader is gone fails, and the function returns Err
PpWrite ==
    /\ pipes.pc = "write"
    /\ pipes.to_write > 0
    /\ pipes.exited \/ pipes.stdin < PipeCap
    /\ pipes' = IF pipes.exited
                THEN [pipes EXCEPT !.pc = "returned", !.stdin_open = FALSE]
                ELSE [pipes EXCEPT !.stdin = @ + 1, !.to_write = @ - 1]
    /\ UNCHANGED pipeFrame

\* write_all has returned: stdin is dropped at the end of the block, stdout and
\* stderr are taken, the stderr thread is spawned, the read loop starts
PpWritten ==
    /\ pipes.pc = "write"
    /\ pipes.to_write = 0
    /\ pipes' = [pipes EXCEPT !.pc = "read", !.stdin_open = FALSE,
                              !.err_pc = "reading"]
    /\ UNCHANGED pipeFrame

\* reader.read_line takes what the subprocess wrote
PpReadOut ==
    /\ pipes.pc = "read"
    /\ pipes.stdout > 0
    /\ pipes' = [pipes EXCEPT !.stdout = @ - 1]
    /\ UNCHANGED pipeFrame

\* read_line returns 0: the pipe is empty and the subprocess has closed it
PpReadEOF ==
    /\ pipes.pc = "read"
    /\ pipes.stdout = 0
    /\ pipes.exited
    /\ pipes' = [pipes EXCEPT !.pc = "wait"]
    /\ UNCHANGED pipeFrame

\* child.wait() returns
PpWait ==
    /\ pipes.pc = "wait"
    /\ pipes.exited
    /\ pipes' = [pipes EXCEPT !.pc = "join"]
    /\ UNCHANGED pipeFrame

\* stderr_handle.join() returns; the outcome is returned
PpJoin ==
    /\ pipes.pc = "join"
    /\ pipes.err_pc = "done"
    /\ pipes' = [pipes EXCEPT !.pc = "returned"]
    /\ UNCHANGED pipeFrame

\* the stderr thread: read_to_string takes what is in the pipe, and returns
\* when the pipe is empty and closed
PeRead ==
    /\ pipes.err_pc = "reading"
    /\ \/ /\ pipes.stderr > 0
          /\ pipes' = [pipes EXCEPT !.stderr = @ - 1]
       \/ /\ pipes.stderr = 0
          /\ pipes.exited
          /\ pipes' = [pipes EXCEPT !.err_pc = "done"]
    /\ UNCHANGED pipeFrame

\* the subprocess goes on to its next operation
NextOp(p) ==
    [p EXCEPT !.at = @ + 1,
              !.left = IF p.at + 1 <= Len(p.prog) THEN p.prog[p.at + 1].n ELSE 0]

\* the subprocess reads its input: a unit, or the end once the runner has
\* closed the pipe
ChRead ==
    /\ ~pipes.exited
    /\ pipes.at <= Len(pipes.prog)
    /\ pipes.prog[pipes.at].op = "read"
    /\ \/ /\ pipes.stdin > 0
          /\ pipes' = [pipes EXCEPT !.stdin = @ - 1]
       \/ /\ pipes.stdin = 0
          /\ ~pipes.stdin_open
          /\ pipes' = NextOp(pipes)
    /\ UNCHANGED pipeFrame

\* the subprocess writes a unit to its output or to its error stream
ChWrite ==
    /\ ~pipes.exited
    /\ pipes.at <= Len(pipes.prog)
    /\ pipes.prog[pipes.at].op \in {"out", "err"}
    /\ LET p == IF pipes.left = 1 THEN NextOp(pipes) ELSE [pipes EXCEPT !.left = @ - 1]
       IN  IF pipes.prog[pipes.at].op = "out"
           THEN /\ pipes.stdout < PipeCap
                /\ pipes' = [p EXCEPT !.stdout = @ + 1]
           ELSE /\ pipes.stderr < PipeCap
                /\ pipes' = [p EXCEPT !.stderr = @ + 1]
    /\ UNCHANGED pipeFrame

\* the subprocess exits after its last operation; its ends of the pipes close
ChExits ==
    /\ ~pipes.exited
    /\ pipes.at > Len(pipes.prog)
    /\ pipes' = [pipes EXCEPT !.exited = TRUE]
    /\ UNCHANGED pipeFrame

RunnerPipeStep ==
    \/ PpWrite
    \/ PpWritten
    \/ PpReadOut
    \/ PpReadEOF
    \/ PpWait
    \/ PpJoin

ChildPipeStep ==
    \/ ChRead
    \/ ChWrite
    \/ ChExits

NextPipe ==
    \/ RunnerPipeStep
    \/ PeRead
    \/ ChildPipeStep

SpecPipe == InitPipe /\ [][NextPipe]_vars

\* the two threads and the subprocess are scheduled: each takes its next
\* step whenever that step stays possible
FairSpecPipe ==
    /\ SpecPipe
    /\ WF_vars(RunnerPipeStep)
    /\ WF_vars(PeRead)
    /\ WF_vars(ChildPipeStep)

\* ------------------------------------------------- owner imprinting and auth
\* handle_message up to the dispatch of a command, for two chats whose
\* updates are handled concurrently: "c1" a private chat, "c2" a group chat.
\* auth.hm[c] is the handler of chat c with the user id of its message.
MaxAuthMessages == 4
Users == 1..3

is_group_chat(c) == c = "c2"

AuthCommands == {"/public on", "/public off", "/clear", "/help"}

\* auth::classify_command
classify_command(command_text) ==
    IF command_text = "/help" THEN "Low"
    ELSE IF command_text \in {"/public on", "/public off", "/clear"} THEN "Critical"
    ELSE "High"

\* auth::get_permission_level
get_permission_level(user_id, owner_user_id, is_public_chat) ==
    IF owner_user_id # 0 /\ user_id = owner_user_id THEN "Owner"
    ELSE IF owner_user_id # 0 /\ is_public_chat THEN "Public"
    ELSE IF owner_user_id # 0 THEN "Denied"
    ELSE "Owner"

\* auth::can_execute
can_execute(permission, risk) ==
    IF permission = "Owner" THEN TRUE
    ELSE IF permission = "Public" THEN risk = "Low"
    ELSE FALSE

\* an imprint that registers whoever is checked
ImprintAlways(owner_user_id, uid) == uid

\* "Imprint: register first user as owner"
Imprint(owner_user_id, uid) == IF owner_user_id = 0 THEN uid ELSE owner_user_id

InitAuth ==
    /\ \E loaded \in {0, 1} :
         auth = [AuthNone EXCEPT !.owner_user_id = loaded, !.loaded = loaded]
    /\ poll = PollNone
    /\ pipes = PipesNone
    /\ chats = AllChats
    /\ sessions = [c \in AllChats |-> NoSession]
    /\ cancel_tokens = [c \in AllChats |-> 0]
    /\ stop_message_ids = [c \in AllChats |-> 0]
    /\ tokens = [t \in Turns |-> [cancelled |-> FALSE, child_pid |-> 0]]
    /\ h = [c \in AllChats |-> HandlerIdle]
    /\ nPrompts = 0
    /\ nUploads = 0
    /\ nMessages = 0
    /\ nLines = 0
    /\ turn = [t \in Turns |-> NoTurn]
    /\ rn = [t \in Turns |-> RunnerNone]
    /\ child = [p \in Pids |-> ChildNone]
    /\ chan = [t \in Turns |-> [q |-> <<>>, open |-> TRUE, rx |-> TRUE]]
    /\ rl = [t \in Turns |-> RenderNone]
    /\ lock_stuck = FALSE
    /\ clearedSince = [t \in Turns |-> FALSE]
    /\ hist_log = <<>>
    /\ hist_ops = 0
    /\ FinalIdle
    /\ RateIdle
    /\ ParseIdle

authFrame ==
    <<chats, cancel_tokens, stop_message_ids, tokens, h, nPrompts, nUploads,
      nMessages, nLines, turn, rn, child, chan, rl, lock_stuck, clearedSince,
      hist_log, hist_ops, finalVars, rateVars, parseVars, poll, pipes>>

\* an update of chat c from user uid reaches handle_message
AmReceive(c, uid) ==
    /\ auth.hm[c].pc = "idle"
    /\ auth.n < MaxAuthMessages
    /\ uid \in Users
    /\ auth' = [auth EXCEPT !.hm[c] = [pc |-> "auth", uid |-> uid], !.n = @ + 1]
    /\ UNCHANGED sessions
    /\ UNCHANGED authFrame

\* "Auth check (imprinting)": one critical section that registers the owner
\* when there is none, and otherwise rejects a user who is not the owner
\* unless the chat is a group chat with public access
AmAuth(c) ==
    /\ auth.hm[c].pc = "auth"
    /\ LET uid == auth.hm[c].uid
           is_public == is_group_chat(c) /\ auth.as_public_for_group_chat[c]
           out == IF auth.owner_user_id = 0 THEN "imprinted"
                  ELSE IF uid # auth.owner_user_id /\ ~is_public THEN "rejected"
                  ELSE "allowed"
       IN  auth' = [auth EXCEPT
                      !.owner_user_id = Imprint(@, uid),
                      !.checked = Append(@, uid),
                      !.hm[c].pc = out]
    /\ UNCHANGED sessions
    /\ UNCHANGED authFrame

\* the reply to a rejected user (MSG_PRIVATE_BOT; return), the reply to the
\* new owner (MSG_OWNER_REGISTERED; go on)
AmReply(c) ==
    /\ auth.hm[c].pc \in {"rejected", "imprinted"}
    /\ auth' = [auth EXCEPT !.hm[c] =
                  IF @.pc = "rejected" THEN [pc |-> "idle", uid |-> 0]
                  ELSE [@ EXCEPT !.pc = "allowed"]]
    /\ UNCHANGED sessions
    /\ UNCHANGED authFrame

\* "Auto-restore session from bot_settings.json if not in memory"
AmRestore(c) ==
    /\ auth.hm[c].pc = "allowed"
    /\ sessions' = [sessions EXCEPT ![c] = AutoRestore(@, "fresh")]
    /\ auth' = [auth EXCEPT !.hm[c].pc = "perm"]
    /\ UNCHANGED authFrame

\* "Auth: check command risk vs user permission level", then the command:
\* /public on and off for the owner in a group chat, /clear, /help
AmCommand(c, cmd) ==
    /\ auth.hm[c].pc = "perm"
    /\ cmd \in AuthCommands
    /\ LET uid == auth.hm[c].uid
           is_public_chat == is_group_chat(c) /\ auth.as_public_for_group_chat[c]
           permission == get_permission_level(uid, auth.owner_user_id, is_public_chat)
           allowed == can_execute(permission, classify_command(cmd))
           is_owner == auth.owner_user_id = uid
           sets == allowed /\ is_group_chat(c) /\ is_owner
       IN  /\ auth' = [auth EXCEPT
                         !.hm[c] = [pc |-> "idle", uid |-> 0],
                         !.as_public_for_group_chat[c] =
                             IF sets /\ cmd = "/public on" THEN TRUE
                             ELSE IF sets /\ cmd = "/public off" THEN FALSE
                             ELSE @]
           /\ sessions' = IF allowed /\ cmd = "/clear"
                          THEN [sessions EXCEPT ![c] = ClearSession(@)]
                          ELSE sessions
    /\ UNCHANGED authFrame

NextAuth ==
    \/ \E c \in AllChats, uid \in Users : AmReceive(c, uid)
    \/ \E c \in AllChats : AmAuth(c)
    \/ \E c \in AllChats : AmReply(c)
    \/ \E c \in AllChats : AmRestore(c)
    \/ \E c \in AllChats, cmd \in AuthCommands : AmCommand(c, cmd)

SpecAuth == InitAuth /\ [][NextAuth]_vars

\* ------------------------------------------------------ two chats at once
\* The handlers, runners and render loops of both chats together with the
\* tasks in shared_rate_limit_wait, for subprocesses that end without having
\* written a line and a clock that stands still.  In the behaviours that
\* start with chats = {"c1"} the other chat sends /cd before it has a session.
MaxChatMessages == 2
MaxChatReservations == 2

InitChats ==
    /\ chats \in {{"c1"}, AllChats}
    /\ sessions = [c \in AllChats |-> NoSession]
    /\ cancel_tokens = [c \in AllChats |-> 0]
    /\ stop_message_ids = [c \in AllChats |-> 0]
    /\ tokens = [t \in Turns |-> [cancelled |-> FALSE, child_pid |-> 0]]
    /\ h = [c \in AllChats |-> HandlerIdle]
    /\ nPrompts = 0
    /\ nUploads = 0
    /\ nMessages = 0
    /\ nLines = 0
    /\ turn = [t \in Turns |-> NoTurn]
    /\ rn = [t \in Turns |-> RunnerNone]
    /\ child = [p \in Pids |-> ChildNone]
    /\ chan = [t \in Turns |-> [q |-> <<>>, open |-> TRUE, rx |-> TRUE]]
    /\ rl = [t \in Turns |-> RenderNone]
    /\ lock_stuck = FALSE
    /\ clearedSince = [t \in Turns |-> FALSE]
    /\ hist_log = <<>>
    /\ hist_ops = 0
    /\ AuxIdle

\* a task of either chat in shared_rate_limit_wait
RateStep ==
    \/ \E k \in 1..MaxWaiters, c \in AllChats : RwReserve(k, c)
    \/ \E k \in 1..MaxWaiters : RwCall(k)

\* the runner of a subprocess that writes no line
QuietRunnerStep(t) ==
    \/ \E ok \in BOOLEAN : RnSpawn(t, ok)
    \/ RnCancelled(t)
    \/ RnEOF(t)
    \/ RnSynthDone(t)

NextChats ==
    \/ (\E c \in chats : HandlerStep(c)) /\ nMessages' <= MaxChatMessages
    \/ (\E c \in AllChats : HandleCd(c)) /\ nMessages' <= MaxChatMessages
    \/ \E t \in Turns : QuietRunnerStep(t)
    \/ \E t \in Turns : RenderStep(t)
    \/ \E p \in Pids, ex \in ExitKinds : ChildExit(p, ex)
    \/ RateStep /\ Len(reserved_log') <= MaxChatReservations

SpecChats == InitChats /\ [][NextChats]_vars

\* --------------------------------------------------------------- properties
\* C1: for every chat, at most one turn holds a registered token: a turn whose
\* render loop has not yet removed its token is the turn the chat's entry
\* of cancel_tokens names, so no later turn has registered over it.
C1_OneTokenPerChat ==
    \A t \in Turns :
        rl[t].pc \in {"loop", "fin_lock"} => cancel_tokens[turn[t].chat] = t

\* the second turn's token is registered while the first turn, its token
\* removed, is still finalizing
C1_Witness ==
    /\ cancel_tokens["c1"] = 2
    /\ rl[1].pc = "record"
    /\ rl[2].pc = "loop"

\* C2: at most one backend subprocess is running for a chat at any time.
C2_OneSubprocessPerChat ==
    \A c \in AllChats :
        Cardinality({p \in Pids : /\ child[p].state = "running"
                                  /\ turn[TurnOfPid(p)].chat = c}) <= 1

\* C3: while a token is registered for a chat, a text message other than /stop
\* (a prompt, a command, the caption of an upload) is answered with the busy
\* reply and nothing else: no turn starts, no subprocess is spawned, the
\* session and the token map stay as they are.
C3_BusyRejected ==
    [][\A c \in AllChats :
         /\ ( /\ cancel_tokens[c] # 0
              /\ h'[c] # h[c]
              /\ \/ h[c].pc = "caption"
                 \/ h[c].pc = "check" /\ h[c].kind # "stop" )
            => /\ h'[c].pc = "reply"
               /\ h'[c].out = "busy"
               /\ UNCHANGED <<sessions, cancel_tokens, nPrompts, tokens, turn,
                              rn, rl, child, chan>>
         /\ ( h[c].pc = "reply" /\ h'[c] # h[c] )
            => /\ h'[c] = HandlerIdle
               /\ UNCHANGED <<sessions, cancel_tokens, nPrompts, tokens, turn,
                              rn, rl, child, chan>>
      ]_vars

\* the caption of an upload is being answered with the busy reply
C3_Witness ==
    /\ cancel_tokens["c1"] # 0
    /\ h["c1"].pc = "reply"
    /\ h["c1"].out = "busy"
    /\ h["c1"].kind = "upload"

\* C4: a turn during which /clear ran (after the turn started, before its
\* render loop's final critical section) changes neither the history nor the
\* session id of its chat when it finalizes.
C4_ClearedTurnRecordsNothing ==
    [][\A t \in Turns :
         (rl[t].pc = "record" /\ rl'[t].pc = "end" /\ clearedSince[t])
            => /\ sessions'[turn[t].chat].history = sessions[turn[t].chat].history
               /\ sessions'[turn[t].chat].session_id = sessions[turn[t].chat].session_id
      ]_vars

\* C5: the history of a chat changes only (a) in the final critical section of
\* a turn's render loop, by the turn's user entry and its assistant entry
\* appended together, or (b) in a handler step that starts no turn and either
\* restores, empties or appends one upload record; the step that dispatches
\* a turn leaves every history alone.
C5_TurnAppendedAtomically ==
    [][\A c \in AllChats :
         /\ sessions'[c].history # sessions[c].history
            => \/ \E t \in Turns :
                    /\ rl[t].pc = "record" /\ rl'[t].pc = "end" /\ turn[t].chat = c
                    /\ sessions'[c].history =
                         enforce_history_cap(
                           sessions[c].history \o
                             << HistoryItem("User", turn[t].user_text),
                                HistoryItem("Assistant", Rendering(rl[t])) >>)
               \/ /\ rl' = rl /\ nPrompts' = nPrompts
                  /\ \/ sessions'[c].history \in {<<>>, OldHistory}
                     \/ \E n \in 1..MaxUploads :
                          sessions'[c].history =
                            enforce_history_cap(
                              Append(sessions[c].history,
                                     HistoryItem("User", UploadRecord(n))))
         /\ nPrompts' # nPrompts => sessions'[c].history = sessions[c].history
      ]_vars

\* the entries of the first turn stand next to each other after an upload record
C5_Witness ==
    \E i \in 2..(Len(sessions["c1"].history) - 1) :
        /\ sessions["c1"].history[i - 1] = HistoryItem("User", UploadRecord(1))
        /\ sessions["c1"].history[i] = HistoryItem("User", PromptText(1))
        /\ sessions["c1"].history[i + 1].item_type = "Assistant"

\* C6 (as amended): on the cancelled path with text accumulated, the final
\* rendering is the accumulated text with its runs of empty lines collapsed,
\* then an empty line and "[Stopped]" (only "[Stopped]" when the text is
\* blank); unless /clear ran during the turn, the final critical section
\* appends exactly the user entry and then the assistant entry holding that
\* rendering, and nothing else.
C6_StoppedRendering ==
    [][\A t \in Turns :
         (rl[t].pc = "record" /\ rl'[t].pc = "end" /\ rl[t].cancelled
            /\ rl[t].full_response # <<>>)
            => LET full == rl[t].full_response
                   shown == IF \A i \in 1..Len(full) : full[i] \in {NL, " "}
                            THEN <<STOPPED>>
                            ELSE normalize_empty_lines(full) \o <<NL, NL, STOPPED>>
                   c == turn[t].chat
               IN  /\ Rendering(rl[t]) = shown
                   /\ ~clearedSince[t]
                        => sessions'[c].history =
                             sessions[c].history \o
                               << HistoryItem("User", turn[t].user_text),
                                  HistoryItem("Assistant", shown) >>
      ]_vars

\* C6 as stated: the final rendering starts with the accumulated text as it
\* is and ends with the marker.
C6_StoppedRenderingVerbatim ==
    [][\A t \in Turns :
         (rl[t].pc = "record" /\ rl'[t].pc = "end" /\ rl[t].cancelled
            /\ rl[t].full_response # <<>>)
            => LET full == rl[t].full_response
                   shown == Rendering(rl[t])
               IN  /\ Len(shown) > Len(full)
                   /\ SubSeq(shown, 1, Len(full)) = full
                   /\ shown[Len(shown)] = STOPPED
      ]_vars

\* a stopped turn with accumulated text has been recorded
C6_Witness ==
    \E i \in 2..Len(sessions["c1"].history) :
        /\ sessions["c1"].history[i - 1] = HistoryItem("User", PromptText(1))
        /\ sessions["c1"].history[i] =
             HistoryItem("Assistant", <<"a", NL, NL, "b", NL, NL, STOPPED>>)
        /\ rl[1].pc = "end"

\* C8: the pending upload notices of a chat are emptied only by /clear or by
\* the start of a turn that carries all of them into its prompt.
C8_DrainedNoticesDelivered ==
    [][\A c \in AllChats :
         (sessions[c].pending_uploads # <<>> /\ sessions'[c].pending_uploads = <<>>)
            => \/ h[c].kind = "clear"
               \/ \E t \in Turns :
                    /\ rl[t].pc = "none" /\ rl'[t].pc = "loop"
                    /\ turn'[t].chat = c
                    /\ turn'[t].uploads = sessions[c].pending_uploads
      ]_vars

\* C10: a chat with no registered token and no /stop handler running has no
\* entry in stop_message_ids.
C10_NoStaleStopNotice ==
    \A c \in AllChats :
        (cancel_tokens[c] = 0 /\ h[c].kind # "stop") => stop_message_ids[c] = 0

\* C7: in every state between the operations (the lock is free), the history
\* holds at most 100 entries and is the latest part of what was appended since
\* the last reset, in order; 105 entries appended keep entries 5..104.
C7_HistoryCap ==
    LET hist == sessions["c1"].history
        n == Len(hist_log)
        k == IF n > 100 THEN 100 ELSE n
        items == [i \in 1..105 |-> HistoryItem("User", <<"item", ToString(i - 1)>>)]
    IN  /\ Len(hist) <= 100
        /\ hist = SubSeq(hist_log, n - k + 1, n)
        /\ enforce_history_cap(items) = [i \in 1..100 |-> items[i + 5]]

\* more than 100 entries were appended since the last reset, the oldest are gone
C7_Witness ==
    /\ Len(hist_log) > 102
    /\ Len(sessions["c1"].history) = 100
    /\ sessions["c1"].history[1] # hist_log[1]
    /\ sessions["c1"].history[100].item_type = "Assistant"

\* the turn's event stream has ended: a Done or an Error event was sent, or
\* the sender is dropped
StreamEnded(t) ==
    \/ rl[t].done
    \/ ~chan[t].open
    \/ \E i \in 1..Len(chan[t].q) : chan[t].q[i].type \in {"Done", "Error"}

\* C9: a registered token whose turn's event stream has ended, or whose cancel
\* flag is set, is eventually removed from cancel_tokens.
C9_TokenEventuallyRemoved ==
    \A t \in Turns :
        ( /\ rl[t].pc \in {"loop", "fin_lock"}
          /\ cancel_tokens[turn[t].chat] = t
          /\ (tokens[t].cancelled \/ StreamEnded(t)) )
        ~> (cancel_tokens[turn[t].chat] # t)

\* C11: when the render task of a turn has ended, the chat holds exactly one
\* message of the turn, the placeholder, and it shows the final rendering.
C11_OneFinalMessage ==
    fin.pc = "end" => (placeholder_msg = "final" /\ chat_out = 0)

\* C12: the runner step that finds the cancel flag set ends the run: it
\* forwards nothing, starts no attempt and no subprocess, and drops the
\* sender; a run that has ended forwards nothing afterwards.
C12_CancelForwardsNothing ==
    [][\A t \in Turns :
         /\ (rn[t].pc = "read" /\ tokens[t].cancelled /\ rn'[t] # rn[t])
            => /\ rn'[t] = RunnerDone
               /\ chan'[t].q = chan[t].q
               /\ ~chan'[t].open
               /\ \A p \in Pids : child'[p].state = "running" => child[p].state = "running"
         /\ rn[t].pc = "done"
            => /\ rn'[t] = rn[t]
               /\ Len(chan'[t].q) <= Len(chan[t].q)
      ]_vars

\* the runner of the first turn has reported Cancelled while its render loop
\* is still polling: the subprocess is reaped and no Done was synthesized
C12_Witness ==
    /\ rn[1].pc = "done"
    /\ tokens[1].cancelled
    /\ child[PidOf(1, 1)].state = "reaped"
    /\ rl[1].pc = "loop"
    /\ ~chan[1].open
    /\ chan[1].rx
    /\ Len(chan[1].q) = 1
    /\ chan[1].q[1].type = "Text"

\* C13: an attempt that completes without cancellation is followed by another
\* attempt exactly when it is the first one, exited unsuccessfully, resumed a
\* session id, forwarded no event and its stderr matches the stale-resume
\* heuristic; the second attempt resumes nothing; there is no third attempt.
C13_RetryOnlyStaleResume ==
    [][\A t \in Turns :
         LET p == PidOf(t, rn[t].attempt)
             completes == rn[t].pc = "read" /\ rn'[t].pc # "read" /\ ~tokens[t].cancelled
             again == rn[t].pc = "read" /\ rn'[t].pc = "start"
         IN  /\ completes
                => (again <=> /\ rn[t].attempt = 1
                              /\ child[p].exit # "ok"
                              /\ turn[t].session_id # 0
                              /\ rn[t].emitted = 0
                              /\ is_retryable_resume_error(StderrText(child[p].exit)))
             /\ again => /\ ~tokens[t].cancelled
                         /\ rn'[t].attempt = 2
                         /\ rn'[t].attempt_session_id = 0
             /\ rn'[t].attempt <= 2
      ]_vars

\* the second attempt of a turn that resumed a stale session is running
C13_Witness ==
    /\ turn[1].session_id # 0
    /\ rn[1].attempt = 2
    /\ rn[1].attempt_session_id = 0
    /\ child[PidOf(1, 1)].state = "reaped"
    /\ child[PidOf(1, 2)].state = "running"

\* the events a step appends to the channel of turn t
Appended(t) ==
    IF Len(chan'[t].q) > Len(chan[t].q)
    THEN SubSeq(chan'[t].q, Len(chan[t].q) + 1, Len(chan'[t].q))
    ELSE <<>>

\* C14: a run that returns normally has sent a Done: its done_sent flag is set
\* only by a step that forwards a Done, and the returning step forwards one
\* when the flag is clear.  Every Done the runner forwards carries the session
\* id the Init event of the same attempt announced (none if there was none).
C14_DoneForwarded ==
    [][\A t \in Turns :
         LET p == PidOf(t, rn[t].attempt)
             dones == { i \in 1..Len(Appended(t)) : Appended(t)[i].type = "Done" }
         IN  /\ rn[t].attempt >= 1
                  => /\ rn[t].last_session_id \in {0, p}
                     /\ rn[t].last_session_id = p
                          => rn[t].last >= 1 /\ child[p].state # "none"
             /\ \A i \in dones : Appended(t)[i].sid = rn[t].last_session_id
             /\ (rn[t].pc = "read" /\ ~rn[t].done_sent /\ rn'[t].done_sent /\ chan[t].rx)
                  => dones # {}
             /\ (rn[t].pc = "synth_done" /\ rn'[t].pc = "done" /\ chan[t].rx)
                  => (rn[t].done_sent <=> dones = {})
      ]_vars

\* the run of the first turn has returned after an Init line only: the Done
\* was synthesized with the announced session id
C14_Witness ==
    /\ rn[1].pc = "done"
    /\ nLines = 1
    /\ chan[1].q = << Event("Init", PidOf(1, 1), <<>>), Event("Done", PidOf(1, 1), <<>>) >>

\* C15: when the final attempt of a run completes with an unsuccessful exit,
\* the Error event with the diagnostic text is put on the channel while the
\* render loop is still polling it, so the final rendering shows the error.
C15_FailedExitErrorShown ==
    [][\A t \in Turns :
         LET p == PidOf(t, rn[t].attempt) IN
         (rn[t].pc = "read" /\ rn'[t].pc = "synth_done" /\ child[p].exit # "ok")
            => /\ Appended(t) = << Event("Error", 0, ErrorText(child[p].exit)) >>
               /\ rl[t].pc = "loop"
               /\ ~rl[t].done
      ]_vars

\* the event that reports a failed start is waiting in the channel of turn t
StartFailureQueued(t) ==
    \E i \in 1..Len(chan[t].q) : chan[t].q[i] = Event("Error", 0, <<"Failed to start">>)

\* C16: a failed start ends the run at once with exactly one Error event and
\* no further attempt, and the turn then reaches its final critical section
\* as Errored (not cancelled, showing the error) with its token removed.
C16_StartFailureEndsErrored ==
    /\ [][\A t \in Turns :
            (rn[t].pc = "start" /\ rn'[t].pc = "done")
               => /\ chan[t].rx
                       => Appended(t) = << Event("Error", 0, <<"Failed to start">>) >>
                  /\ ~chan'[t].open
                  /\ child' = child
         ]_vars
    /\ \A t \in Turns :
         (StartFailureQueued(t) /\ rl[t].pc = "loop")
            ~> ( /\ rl[t].pc = "record"
                 /\ ~rl[t].cancelled
                 /\ rl[t].full_response = <<ERROR_PREFIX, "Failed to start">>
                 /\ cancel_tokens[turn[t].chat] # t )

\* C17: no handler is inside a rate-limiter wait (or the transport call that
\* follows it) while it holds the shared lock.
C17_LockNotHeldAcrossWait ==
    /\ ~lock_stuck
    /\ \A c \in AllChats : h[c].pc # "cd_stuck"

\* C18: the instants reserved for one chat, in the order of the critical
\* sections, grow by at least the minimum gap from one to the next, and none
\* is earlier than the time of its reservation.
C18_ReservationsSpaced ==
    \A i \in 1..Len(reserved_log) :
        /\ reserved_log[i].target >= reserved_log[i].at
        /\ \A j \in (i + 1)..Len(reserved_log) :
             reserved_log[j].chat = reserved_log[i].chat
                => reserved_log[j].target >= reserved_log[i].target + 3000

\* two tasks sleep on reservations for the same chat, made at the same time
C18_Witness ==
    /\ waiter[1].pc = "sleep"
    /\ waiter[2].pc = "sleep"
    /\ waiter[1].chat = waiter[2].chat
    /\ Len(reserved_log) = 3
    /\ reserved_log[2].at = reserved_log[3].at
    /\ reserved_log[2].chat = reserved_log[3].chat
    /\ reserved_log[3].target > now

\* C19: any two transport calls made for the same chat after a reservation are
\* at least the minimum gap apart.
C19_CallsSpaced ==
    \A i \in 1..Len(call_log) :
        \A j \in (i + 1)..Len(call_log) :
            call_log[j].chat = call_log[i].chat
               => call_log[j].at >= call_log[i].at + 3000

\* C20: for a result event the last message returned is a Done with the result
\* text and the session id; with is_error true the messages are an Error and
\* then that Done, the Error's message being the string members of errors
\* joined by line breaks if that text is not empty, else the result text if
\* it is not blank, else the generic message; otherwise the Done is alone.
C20_ResultEventParsed ==
    parse_out # <<>> =>
        LET j == parse_in
            n == Len(parse_out)
            rtext == IF j.result.t = "str" THEN j.result.s ELSE <<>>
            sid == IF j.session_id.t = "str" THEN <<j.session_id.s>> ELSE <<>>
            errs == IF j.errors.t = "arr"
                    THEN JoinNL(StrElems(j.errors.a)) ELSE <<>>
            blank == \A i \in 1..Len(rtext) : rtext[i] \in {" ", NL}
            msg == IF errs # <<>> THEN errs
                   ELSE IF ~blank THEN rtext ELSE <<"OMX execution failed">>
        IN  /\ parse_out[n] = StreamMsg("Done", rtext, sid)
            /\ IF j.is_error.t = "bool" /\ j.is_error.b
               THEN /\ n = 2
                    /\ parse_out[1] = StreamMsg("Error", msg, <<>>)
               ELSE n = 1

\* {"type":"result","is_error":true,"errors":["boom"],"result":"",
\* "session_id":"sess-2"} has been parsed
C20_Witness ==
    /\ parse_in = ResultEvent(JStr(<<>>), JStr(<<"sess-2">>), JBool(TRUE),
                              JArr(<<JStr(<<"boom">>)>>))
    /\ parse_out = << StreamMsg("Error", <<"boom">>, <<>>),
                      StreamMsg("Done", <<>>, << <<"sess-2">> >>) >>

\* the last line read was valid JSON with this event type
ParsedLineOfType(type) ==
    /\ reader.lines > 0
    /\ ~parse_in.blank
    /\ parse_in.valid
    /\ parse_in.json.type = JStr(type)

\* the last line read was an item.completed event whose item has this kind
ParsedItemCompleted(kind) ==
    /\ ParsedLineOfType(<<"item.completed">>)
    /\ parse_in.json.item.present
    /\ parse_in.json.item.type = JStr(kind)

\* C21: for a thread.started event whose thread_id is a string, and for a
\* system event whose subtype is "init" and whose session_id is a string, the
\* parser returns exactly one message, an Init carrying that identifier.
C21_InitFromStartEvents ==
    /\ (ParsedLineOfType(<<"thread.started">>) /\ parse_in.json.thread_id.t = "str")
         => parse_out = << StreamMsg("Init", <<>>, <<parse_in.json.thread_id.s>>) >>
    /\ (/\ ParsedLineOfType(<<"system">>)
        /\ parse_in.json.subtype = JStr(<<"init">>)
        /\ parse_in.json.session_id.t = "str")
         => parse_out = << StreamMsg("Init", <<>>, <<parse_in.json.session_id.s>>) >>

\* {"type":"thread.started","thread_id":"id-1"} has been parsed
C21_Witness ==
    /\ ParsedLineOfType(<<"thread.started">>)
    /\ parse_in.json.thread_id = JStr(<<"id-1">>)
    /\ parse_in.json.session_id = JAbsent
    /\ parse_out = << StreamMsg("Init", <<>>, << <<"id-1">> >>) >>

C23_SkippedLineContinues ==
    [][ (/\ reader'.lines = reader.lines + 1
         /\ \/ ~parse_in'.valid
            \/ parse_in'.json.type.t # "str"
            \/ parse_in'.json.type.s \notin
                 { <<"system">>, <<"assistant">>, <<"result">>, <<"thread.started">>,
                   <<"item.started">>, <<"item.completed">>, <<"turn.completed">> })
        => /\ parse_out' = <<>>
           /\ sent' = sent
           /\ reader'.emitted_message_count = reader.emitted_message_count
           /\ reader'.done_sent = reader.done_sent
           /\ reader'.pc = "read" ]_vars

\* a line that is not JSON was read after a line whose message was sent
C23_Witness ==
    /\ parse_in = GarbageLine
    /\ reader.lines = 2
    /\ reader.pc = "read"
    /\ reader.emitted_message_count = 1

\* C24 as stated: every item.completed event of kind command_execution gives
\* one ToolResult.
C24_CommandAlwaysReported ==
    ParsedItemCompleted(<<"command_execution">>) =>
        /\ Len(parse_out) = 1
        /\ parse_out[1].type = "ToolResult"

\* C24: an item.completed event of kind command_execution with no output left
\* after trimming and an exit code that is zero or missing gives nothing;
\* every other one gives one ToolResult whose is_error is true exactly when
\* the exit code is not zero and whose content is the aggregated output
\* without its trailing blanks or, when nothing is left of it, "Command
\* exited with code N".
C24_CommandResult ==
    ParsedItemCompleted(<<"command_execution">>) =>
        LET o == parse_in.json.item.aggregated_output
            e == parse_in.json.item.exit_code
            raw == IF o.t = "str" THEN o.s ELSE <<>>
            keep == IF \E i \in 1..Len(raw) : ~IsBlankChar(raw[i])
                    THEN CHOOSE i \in 1..Len(raw) :
                             /\ ~IsBlankChar(raw[i])
                             /\ \A j \in (i + 1)..Len(raw) : IsBlankChar(raw[j])
                    ELSE 0
            output == SubSeq(raw, 1, keep)
            failed == e # <<>> /\ e[1] # 0
        IN  IF output = <<>> /\ ~failed
            THEN parse_out = <<>>
            ELSE /\ Len(parse_out) = 1
                 /\ parse_out[1].type = "ToolResult"
                 /\ parse_out[1].is_error = failed
                 /\ parse_out[1].text =
                      IF output # <<>> THEN output
                      ELSE <<"Command exited with code ">> \o FormatI64(e[1])

\* a command that printed nothing and exited with code 127 has been parsed
C24_Witness ==
    /\ ParsedItemCompleted(<<"command_execution">>)
    /\ parse_in.json.item.aggregated_output = JStr(<<" ", NL>>)
    /\ parse_in.json.item.exit_code = <<127>>
    /\ parse_out = << ToolResult(<<"Command exited with code ", "1", "2", "7">>, TRUE) >>

\* C25: is_retryable_resume_error is true exactly when the lower-cased text
\* contains one of the sixteen known phrases, or contains "--resume" or
\* "resume " together with one of "not found", "does not exist", "unknown",
\* "no such", "expired", "invalid"; so it is true for a text that contains
\* "thread not found" and false for "network timeout while contacting API".
C25_RetryableResumeError ==
    retryable # <<>> =>
        LET lower == to_lowercase(stderr_text)
            phrases ==
                { "failed to resume", "could not resume", "cannot resume",
                  "can't resume", "unable to resume", "invalid value for '--resume'",
                  "invalid value for \"--resume\"", "thread not found",
                  "session not found", "conversation not found", "unknown thread",
                  "unknown session", "no such thread", "no such session",
                  "expired thread", "expired session" }
            hints == { "not found", "does not exist", "unknown", "no such",
                       "expired", "invalid" }
        IN  /\ retryable[1] =
                 \/ \E ph \in phrases : Contains(lower, ph)
                 \/ /\ \E c \in {"--resume", "resume "} : Contains(lower, c)
                    /\ \E hint \in hints : Contains(lower, hint)
            /\ Contains(stderr_text, "thread not found") => retryable[1]
            /\ stderr_text = "network timeout while contacting API" => ~retryable[1]

\* "Error: Thread Not Found" has been classified as a stale resume
C25_Witness ==
    /\ stderr_text = "Error: Thread Not Found\n"
    /\ retryable = <<TRUE>>

\* C26: a task that waits for the shared lock eventually holds it: the handler
\* inside shared_rate_limit_wait gets past it, and a render task that has left
\* its loop gets its final critical section.
C26_LockWaitersServed ==
    /\ \A c \in AllChats : (h[c].pc = "cd_stuck") ~> (h[c].pc # "cd_stuck")
    /\ \A t \in Turns : (rl[t].pc = "fin_lock") ~> (rl[t].pc = "record")

\* C27: while a turn of a chat is running, every earlier turn of that chat has
\* ended its final critical section (history pair appended, session id stored).
C27_EarlierTurnsFinalized ==
    \A t1 \in Turns, t2 \in Turns :
        ( /\ t1 < t2
          /\ rl[t1].pc # "none"
          /\ rn[t2].pc # "none"
          /\ turn[t1].chat = turn[t2].chat )
        => rl[t1].pc = "end"

\* C28: a subprocess of the turn, of its first attempt or of its retry, that
\* is running while the turn's cancel flag is set gets terminated.
C28_CancelledChildTerminated ==
    \A a \in {1, 2} :
        (tokens[1].cancelled /\ child[PidOf(1, a)].state = "running")
        ~> (child[PidOf(1, a)].state # "running")

\* the flag is set while the subprocess of the retry runs and the token still
\* holds the pid of the first attempt
C28_Witness ==
    /\ tokens[1].cancelled
    /\ tokens[1].child_pid = PidOf(1, 1)
    /\ child[PidOf(1, 2)].state = "running"
    /\ h["c1"].pc = "idle"

\* C29: the pid stored in a token is not signalled by /stop or by the render
\* loop's cancelled path once the runner has waited for that subprocess.
C29_NoSignalAfterReap ==
    [][ /\ \A c \in AllChats :
             (h[c].pc = "stop_signal" /\ h'[c].pc = "idle"
                /\ tokens[h[c].tok].child_pid # 0)
             => child[tokens[h[c].tok].child_pid].state # "reaped"
        /\ \A t \in Turns :
             (rl[t].pc = "record" /\ rl'[t].pc = "end" /\ rl[t].cancelled
                /\ tokens[t].child_pid # 0)
             => child[tokens[t].child_pid].state # "reaped" ]_vars

\* C30: at the step that starts the retry the channel is empty and the render
\* loop has received nothing, so nothing of the first attempt was forwarded;
\* an Init put on the channel is the one of the attempt that is running; the
\* orchestrator puts at most one Error and then at most one Done of its own
\* on the channel, when the reading has ended, and nothing after it returned.
C30_RetryForwardsNothing ==
    [][\A t \in Turns :
         /\ (rn[t].attempt = 1 /\ rn'[t].attempt = 2)
              => /\ chan'[t].q = <<>>
                 /\ chan[t].q = <<>>
                 /\ rl[t].full_response = <<>>
                 /\ rl[t].new_session_id = 0
                 /\ ~rl[t].done
         /\ rn[t].pc \in {"synth_done", "done"}
              => rn'[t].pc \in {"synth_done", "done"}
         /\ Len(chan'[t].q) > Len(chan[t].q)
              => LET new == Appended(t)
                     errors == { i \in 1..Len(new) : new[i].type = "Error" }
                     dones == { i \in 1..Len(new) : new[i].type = "Done" }
                 IN  /\ rn[t].pc # "done"
                     /\ \A i \in 1..Len(new) :
                          new[i].type = "Init" => new[i].sid = PidOf(t, rn[t].attempt)
                     /\ Cardinality(errors) <= 1 /\ Cardinality(dones) <= 1
                     /\ errors # {} => /\ rn[t].pc \in {"start", "read"}
                                       /\ rn'[t].pc \in {"synth_done", "done"}
                     /\ (dones # {} /\ rn[t].pc # "read")
                          => (rn[t].pc = "synth_done" /\ rn'[t].pc = "done")
      ]_vars

\* the retry of a turn has forwarded its Init, the first event on the channel
C30_Witness ==
    /\ rn[1].attempt = 2
    /\ rn[1].emitted = 1
    /\ child[PidOf(1, 1)].exit = "none"
    /\ chan[1].q = << Event("Init", PidOf(1, 2), <<>>) >>

\* C35: /clear sets the session id of the chat's session to none, empties its
\* history and its pending uploads and sets cleared, and keeps the entry and
\* its working path; the start of the next turn of the chat resets cleared;
\* a turn during which no /clear ran finds cleared reset in its final critical
\* section and appends its two entries.
C35_ClearedInPlace ==
    [][\A c \in AllChats :
         /\ (h[c].pc = "check" /\ h[c].kind = "clear" /\ h'[c] = HandlerIdle)
              => /\ sessions'[c].exists = sessions[c].exists
                 /\ sessions'[c].has_path = sessions[c].has_path
                 /\ sessions[c].exists
                      => /\ sessions'[c].session_id = 0
                         /\ sessions'[c].history = <<>>
                         /\ sessions'[c].pending_uploads = <<>>
                         /\ sessions'[c].cleared
                 /\ \A d \in AllChats \ {c} : sessions'[d] = sessions[d]
         /\ (nPrompts' = nPrompts + 1 /\ turn'[nPrompts'].chat = c)
              => ~sessions'[c].cleared
         /\ \A t \in Turns :
              (rl[t].pc = "record" /\ rl'[t].pc = "end" /\ turn[t].chat = c
                 /\ ~clearedSince[t])
                => /\ ~sessions[c].cleared
                   /\ Len(sessions'[c].history) = Len(sessions[c].history) + 2
      ]_vars

\* the second turn, started after a /clear that followed the first turn, has
\* appended its two entries to the emptied history
C35_Witness ==
    /\ rl[1].pc = "end" /\ rl[2].pc = "end"
    /\ sessions["c1"].exists /\ sessions["c1"].has_path
    /\ ~sessions["c1"].cleared
    /\ Len(sessions["c1"].history) = 2
    /\ sessions["c1"].history[1] = HistoryItem("User", PromptText(2))
    /\ sessions["c1"].history[2].item_type = "Assistant"

\* the entries of a history that hold the prompt of a turn
PromptEntries(history) ==
    { i \in 1..Len(history) :
        \E t \in Turns : history[i] = HistoryItem("User", PromptText(t)) }

AnnouncedBy(ev) == IF ev.type \in {"Init", "Done"} THEN ev.sid ELSE 0

\* the last session id announced by the events of q, sid when there is none
RECURSIVE LastAnnounced(_, _, _)
LastAnnounced(q, k, sid) ==
    IF k > Len(q) THEN sid
    ELSE LastAnnounced(q, k + 1, IF AnnouncedBy(q[k]) # 0 THEN AnnouncedBy(q[k]) ELSE sid)

\* C34: when the final critical section of a turn runs on a session that was
\* not cleared, the session id of the chat becomes the last session id the
\* runner has put on the turn's channel, and stays as it was when the runner
\* has announced none.
C34_SessionIdIsLastAnnounced ==
    [][\A t \in Turns :
         LET c == turn[t].chat
             announced == LastAnnounced(chan[t].q, 1, rl[t].new_session_id)
         IN  (rl[t].pc = "record" /\ rl'[t].pc = "end"
                /\ sessions[c].exists /\ ~sessions[c].cleared)
               => sessions'[c].session_id =
                    IF announced # 0 THEN announced ELSE sessions[c].session_id
      ]_vars

\* the messages send_long_message sends in the mode the rendering is in
ChunksOf(f) == IF f.mode = "html" THEN f.html_chunks ELSE f.plain_chunks

ErrorsIn(received) == { i \in 1..Len(received) : received[i].type = "Error" }

LastErrorIn(received) ==
    CHOOSE i \in ErrorsIn(received) : \A j \in ErrorsIn(received) : j <= i

\* the last two entries of a history are the prompt of turn 1 and resp
RecordedLast(history, resp) ==
    /\ Len(history) >= 2
    /\ history[Len(history) - 1] = HistoryItem("User", PromptText(1))
    /\ history[Len(history)] = HistoryItem("Assistant", resp)

\* C31 as stated: a turn that received an Error renders and records the
\* prefix and the message of that Error, whatever else it received.
C31_ErrorMessageOnly ==
    [][(poll.pc = "final" /\ poll'.pc = "end" /\ ErrorsIn(poll.received) # {})
         => LET shown == normalize_empty_lines(
                           <<ERROR_PREFIX>>
                             \o poll.received[LastErrorIn(poll.received)].text)
            IN  /\ Rendering(poll) = shown
                /\ RecordedLast(sessions'["c1"].history, shown)
      ]_vars

C33_DrainEmptiesBeforeFinal ==
    [][/\ (poll.pc = "drain" /\ poll'.pc # "drain")
            => /\ chan[1].q = <<>>
               /\ poll.owed = 0
               /\ poll'.pc = "render"
       /\ (poll.pc = "drain" /\ poll'.pc = "render" /\ poll.term_at > 0)
            => LET r == ApplyAll(PollNone, poll.received, 1)
               IN  /\ SubSeq(poll.received, poll.term_at + 1,
                             poll.term_at + Len(poll.queued_then)) = poll.queued_then
                   /\ poll'.done
                   /\ poll'.full_response = r.full_response
                   /\ poll'.new_session_id = r.new_session_id
       /\ (poll.pc = "render" /\ poll.done /\ poll' # poll)
            => /\ poll'.pushed = poll.pushed
               /\ poll'.pc = "top"
       /\ (poll.pc = "top" /\ poll.done /\ poll' # poll)
            => /\ poll'.pc = "fin"
               /\ ~poll'.cancelled
       /\ (poll.pc = "final" /\ poll'.pc = "end" /\ poll.term_at > 0)
            => RecordedLast(sessions'["c1"].history,
                            FinalResponse(ApplyAll(PollNone, poll.received, 1).full_response))
      ]_vars

\* a Done was received with text queued behind it, the flag was set during
\* that drain, and the turn has recorded the text
C33_Witness ==
    /\ poll.pc = "end"
    /\ poll.term_at = 1
    /\ poll.received[1].type = "Done"
    /\ poll.queued_then = << Event("Text", 0, <<"a">>) >>
    /\ tokens[1].cancelled
    /\ RecordedLast(sessions["c1"].history, <<"a">>)

\* C36: whatever the subprocess writes to its output and its error stream,
\* and in whatever order with reading its input, the runner returns an
\* outcome.
C36_RunnerReturns == <>(pipes.pc = "returned")

\* C39: the owner id, once set, never changes; it is the id loaded at startup
\* or else the user of the first auth check that ran, whatever the order in
\* which the handlers of different chats reach the check; a user who is not
\* the owner, in a chat that is not a group chat with public access, is
\* rejected, and the handling of a rejected message changes no session, no
\* token and no setting and ends with the reply.
C39_OwnerImprintedOnce ==
    [][/\ auth.owner_user_id # 0 => auth'.owner_user_id = auth.owner_user_id
       /\ auth'.owner_user_id =
            IF auth'.loaded # 0 THEN auth'.loaded
            ELSE IF auth'.checked = <<>> THEN 0
            ELSE auth'.checked[1]
       /\ \A c \in AllChats :
            /\ ( /\ auth.hm[c].pc = "auth" /\ auth'.hm[c].pc # "auth"
                 /\ auth.owner_user_id # 0
                 /\ auth.hm[c].uid # auth.owner_user_id
                 /\ ~(is_group_chat(c) /\ auth.as_public_for_group_chat[c]) )
                 => auth'.hm[c].pc = "rejected"
            /\ ( /\ auth'.hm[c] # auth.hm[c]
                 /\ "rejected" \in {auth.hm[c].pc, auth'.hm[c].pc} )
                 => /\ sessions' = sessions
                    /\ cancel_tokens' = cancel_tokens
                    /\ tokens' = tokens
                    /\ auth'.owner_user_id = auth.owner_user_id
                    /\ auth'.as_public_for_group_chat = auth.as_public_for_group_chat
                    /\ auth.hm[c].pc = "rejected" => auth'.hm[c].pc = "idle"
      ]_vars

\* the first messages of users 2 and 1 were in their auth checks at the same
\* time with no owner registered; user 2 was checked first and is the owner,
\* user 1 is rejected, and the owner's chat has its session
C39_Witness ==
    /\ auth.loaded = 0
    /\ auth.checked = <<2, 1>>
    /\ auth.owner_user_id = 2
    /\ auth.n = 2
    /\ auth.hm["c1"] = [pc |-> "rejected", uid |-> 1]
    /\ auth.hm["c2"].pc = "perm"
    /\ sessions["c2"].exists

\* the step is an operation of chat c: a step of its handler, of the runner or
\* the render loop of one of its turns, or of a task that reserves for it
StepOfChat(c) ==
    \/ HandlerStep(c)
    \/ HandleCd(c)
    \/ \E t \in Turns : turn[t].chat = c /\ (QuietRunnerStep(t) \/ RenderStep(t))
    \/ \E k \in 1..MaxWaiters : RwReserve(k, c)
    \/ \E k \in 1..MaxWaiters : waiter[k].chat = c /\ RwCall(k)

\* the step leaves what the shared state holds for chat d as it is
ChatUnchanged(d) ==
    /\ sessions'[d] = sessions[d]
    /\ cancel_tokens'[d] = cancel_tokens[d]
    /\ cancel_tokens[d] # 0 => tokens'[cancel_tokens[d]] = tokens[cancel_tokens[d]]
    /\ stop_message_ids'[d] = stop_message_ids[d]
    /\ api_timestamps'[d] = api_timestamps[d]

====
